---- MODULE Spec2Model ----
(***************************************************************************)
(* A model of abiiranathan/kvstore: the typed key-value engine             *)
(* (src/src/kvstore.c), its thread-safe facade (src/src/kvapi.c) and the   *)
(* epoll server built on it (src/kv-server.c).                             *)
(*                                                                         *)
(* Conventions                                                             *)
(*  - a byte is a number in 0..255, a buffer a sequence of bytes;          *)
(*  - a null char* is the sequence NullPtr, which is no buffer;            *)
(*  - a uint32_t that is hashed is a pair <<hi, lo>> of 16-bit limbs, so   *)
(*    that the arithmetic mod 2^32 is done on numbers TLC can hold;        *)
(*  - an int64_t or a double is its 8 bytes, most significant first;       *)
(*  - entries live in the arena: store.arena maps an address to the entry  *)
(*    object at it, buckets[] and entry.next hold addresses, NULL is 0.    *)
(***************************************************************************)
EXTENDS Integers, Sequences, FiniteSets, TLC

\* ------------------------------------------------------------------ bounds

\* KVSTORE_MAX_STRING_SIZE is 1024 * 1024 in src/kvstore.h:18. The model is
\* parametric in it and is checked with a small limit, so that a payload of
\* exactly the limit and one of limit + 1 bytes are buffers TLC can hold.
KVSTORE_MAX_STRING_SIZE == 3

\* How many filler keys a run may insert on top of the test keys: enough for
\* the load factor of a 16-bucket table to reach 0.75 and force a resize.
NumFillers == 11

\* BUFFER_SIZE is 64 * 1024 in src/kv-server.c:30, the size of a client's
\* read_buffer and of its write_buffer. The model is parametric in it and is
\* checked with a small size, which holds the longest error reply of the
\* server and which a few replies fill.
BUFFER_SIZE == 34

\* MAX_COMMAND_ARGS is 32 in src/kv-server.c:41, the size of the array
\* parse_command fills. The model is parametric in it and is checked with a
\* small size, so that a value of the tokens past it fits the limit of a
\* string.
MAX_COMMAND_ARGS == 4

\* --------------------------------------------------------- program constants

KVSTORE_MIN_CAPACITY == 16
KVSTORE_DEFAULT_CAPACITY == 1024
\* KVSTORE_DEFAULT_LOAD_FACTOR 0.75 as the fraction LOAD_FACTOR_NUM / LOAD_FACTOR_DEN
LOAD_FACTOR_NUM == 3
LOAD_FACTOR_DEN == 4

KVSTORE_TYPE_NULL == 0
KVSTORE_TYPE_STRING == 1
KVSTORE_TYPE_INT64 == 2
KVSTORE_TYPE_DOUBLE == 3
KVSTORE_TYPE_BOOL == 4
KVSTORE_TYPE_BINARY == 5

KVSTORE_OK == 0
KVSTORE_ERROR_NULL_POINTER == 1
KVSTORE_ERROR_INVALID_KEY == 2
KVSTORE_ERROR_CAPACITY_FULL == 3
KVSTORE_ERROR_KEY_NOT_FOUND == 4
KVSTORE_ERROR_MEMORY == 5
KVSTORE_ERROR_IO == 6
KVSTORE_ERROR_INVALID_FORMAT == 7
KVSTORE_ERROR_STRING_TOO_LARGE == 8
KVSTORE_ERROR_TYPE_MISMATCH == 9
KVSTORE_ERROR_INVALID_TYPE == 10

KVSTORE_VERSION_MAJOR == 3
KVSTORE_VERSION_MINOR == 0
KVSTORE_VERSION_PATCH == 0

\* MAGIC_NUMBER 0x4B56DB02, most significant byte first
MAGIC_NUMBER == <<75, 86, 219, 2>>

NULL == 0
NullPtr == <<-1>>

\* ------------------------------------------------------------- arithmetic

RECURSIVE Xor8(_, _, _)
\* a ^ b on the low n bits
Xor8(a, b, n) ==
    IF n = 0 THEN 0
    ELSE (((a % 2) + (b % 2)) % 2) + 2 * Xor8(a \div 2, b \div 2, n - 1)

\* h ^ byte for a uint32_t h = <<hi, lo>>: only the low 8 bits change
U32XorByte(h, byte) ==
    <<h[1], (h[2] \div 256) * 256 + Xor8(h[2] % 256, byte, 8)>>

\* a * b mod 2^32 on 16-bit limbs (the limb products of the FNV prime stay
\* far below 2^31)
U32Mul(a, b) ==
    LET low == a[2] * b[2]
        mid == a[1] * b[2] + a[2] * b[1] + (low \div 65536)
    IN  <<mid % 65536, low % 65536>>

\* h % n for a uint32_t h and a small n
U32Mod(h, n) == ((h[1] % n) * (65536 % n) + (h[2] % n)) % n

FNV_PRIME == <<256, 403>>
FNV_OFFSET_BASIS == <<33052, 40389>>

RECURSIVE hash_loop(_, _, _, _)
hash_loop(hash, data, i, len) ==
    IF i > len THEN hash
    ELSE hash_loop(U32Mul(U32XorByte(hash, data[i]), FNV_PRIME), data, i + 1, len)

\* FNV-1a over the first len bytes of data
hash_key(data, len) == hash_loop(FNV_OFFSET_BASIS, data, 1, len)

\* ---------------------------------------------------------------- strings

\* kvstore_string_t {0}
NullString == [len |-> 0, data |-> NullPtr]

\* kvstore_string_create_arena: the copy of len bytes of data in the arena,
\* or {0} for a null source or a length over the limit
kvstore_string_create_arena(data, len) ==
    IF data = NullPtr /\ len > 0 THEN NullString
    ELSE IF len > KVSTORE_MAX_STRING_SIZE THEN NullString
    ELSE [len |-> len, data |-> IF len > 0 THEN SubSeq(data, 1, len) ELSE <<>>]

\* ----------------------------------------------------------------- values

\* A kvstore_value_t: the tag, and the union as (len, data): the
\* kvstore_string_t of a string or binary value, or len 0 and the bytes of
\* the scalar (8 for int64 and double, 1 for bool).
kvstore_value_create_null == [type |-> KVSTORE_TYPE_NULL, len |-> 0, data |-> NullPtr]

\* a null kvstore_value_t*
NoValue == [type |-> -1, len |-> 0, data |-> NullPtr]

kvstore_value_create_int64(value) == [type |-> KVSTORE_TYPE_INT64, len |-> 0, data |-> value]
kvstore_value_create_double(value) == [type |-> KVSTORE_TYPE_DOUBLE, len |-> 0, data |-> value]
kvstore_value_create_bool(value) == [type |-> KVSTORE_TYPE_BOOL, len |-> 0, data |-> value]

kvstore_value_create_string_arena(data, len) ==
    LET s == kvstore_string_create_arena(data, len)
    IN  IF s.data = NullPtr /\ len > 0 THEN kvstore_value_create_null
        ELSE [type |-> KVSTORE_TYPE_STRING, len |-> s.len, data |-> s.data]

kvstore_value_create_binary_arena(data, len) ==
    LET s == kvstore_string_create_arena(data, len)
    IN  IF s.data = NullPtr /\ len > 0 THEN kvstore_value_create_null
        ELSE [type |-> KVSTORE_TYPE_BINARY, len |-> s.len, data |-> s.data]

kvstore_value_copy_arena(src) ==
    IF src = NoValue THEN kvstore_value_create_null
    ELSE IF src.type = KVSTORE_TYPE_NULL THEN kvstore_value_create_null
    ELSE IF src.type = KVSTORE_TYPE_STRING THEN kvstore_value_create_string_arena(src.data, src.len)
    ELSE IF src.type = KVSTORE_TYPE_INT64 THEN kvstore_value_create_int64(src.data)
    ELSE IF src.type = KVSTORE_TYPE_DOUBLE THEN kvstore_value_create_double(src.data)
    ELSE IF src.type = KVSTORE_TYPE_BOOL THEN kvstore_value_create_bool(src.data)
    ELSE IF src.type = KVSTORE_TYPE_BINARY THEN kvstore_value_create_binary_arena(src.data, src.len)
    ELSE kvstore_value_create_null

\* ------------------------------------------------------------- hash table

\* next_power_of_2: the bit smearing of n - 1, plus one
RECURSIVE smear(_, _)
smear(n, p) == IF p >= n THEN p ELSE smear(n, 2 * p)
\* the capacity as it is, when it is above KVSTORE_MIN_CAPACITY
next_power_of_2_same(n) ==
    IF n <= KVSTORE_MIN_CAPACITY THEN KVSTORE_MIN_CAPACITY ELSE n

next_power_of_2(n) ==
    IF n <= KVSTORE_MIN_CAPACITY THEN KVSTORE_MIN_CAPACITY ELSE smear(n, 1)

\* kvstore_create: an empty table of next_power_of_2(capacity) buckets
kvstore_create(capacity) ==
    LET cap == IF capacity = 0 THEN KVSTORE_DEFAULT_CAPACITY ELSE capacity
        bucket_count == next_power_of_2(cap)
    IN  [buckets |-> [i \in 0..(bucket_count - 1) |-> NULL],
         bucket_count |-> bucket_count,
         entry_count |-> 0,
         arena |-> <<>>]

\* arena_alloc of an entry object: a free address of the arena. Which address
\* it is cannot be observed through the table, so the least free one stands
\* for it.
arena_alloc(arena) ==
    CHOOSE a \in 1..(Cardinality(DOMAIN arena) + 1) : a \notin DOMAIN arena

\* the arena with object e at address a
ArenaStore(arena, a, e) ==
    [x \in (DOMAIN arena) \cup {a} |-> IF x = a THEN e ELSE arena[x]]

\* the load factor above max_load_factor, and not equal to it
kvstore_load_factor_gt_max(store) ==
    store.bucket_count # 0
    /\ store.entry_count * LOAD_FACTOR_DEN > store.bucket_count * LOAD_FACTOR_NUM

kvstore_load_factor_ge_max(store) ==
    store.bucket_count # 0
    /\ store.entry_count * LOAD_FACTOR_DEN >= store.bucket_count * LOAD_FACTOR_NUM

RECURSIVE find_in_chain(_, _, _, _, _)
find_in_chain(arena, entry, key_data, key_len, hash) ==
    IF entry = NULL THEN NULL
    ELSE IF arena[entry].hash = hash /\ arena[entry].key.len = key_len
            /\ SubSeq(arena[entry].key.data, 1, key_len) = SubSeq(key_data, 1, key_len)
         THEN entry
         ELSE find_in_chain(arena, arena[entry].next, key_data, key_len, hash)

\* a lookup that compares the first entry of the chain alone
find_entry_head(store, key_data, key_len, hash) ==
    LET head == store.buckets[U32Mod(hash, store.bucket_count)]
    IN  IF key_data = NullPtr \/ key_len = 0 \/ head = NULL THEN NULL
        ELSE IF store.arena[head].hash = hash /\ store.arena[head].key.len = key_len
                /\ SubSeq(store.arena[head].key.data, 1, key_len) = SubSeq(key_data, 1, key_len)
             THEN head
             ELSE NULL

\* find_entry: the address of the entry of the key in its bucket's chain, or NULL
find_entry(store, key_data, key_len, hash) ==
    IF key_data = NullPtr \/ key_len = 0 THEN NULL
    ELSE find_in_chain(store.arena, store.buckets[U32Mod(hash, store.bucket_count)],
                       key_data, key_len, hash)

\* resize_hash_table, the inner while: relink the chain starting at entry
\* into st.buckets (the new bucket array), each entry at the head of its
\* new bucket
RECURSIVE rehash_chain(_, _, _)
rehash_chain(st, entry, new_bucket_count) ==
    IF entry = NULL THEN st
    ELSE LET next == st.arena[entry].next
             new_index == U32Mod(st.arena[entry].hash, new_bucket_count)
             relinked == [st EXCEPT !.arena[entry].next = st.buckets[new_index],
                                    !.buckets[new_index] = entry]
         IN  rehash_chain(relinked, next, new_bucket_count)

\* resize_hash_table, the outer for over the old buckets i..old_count-1
RECURSIVE rehash_from(_, _, _, _, _)
rehash_from(st, old_buckets, i, old_count, new_bucket_count) ==
    IF i >= old_count THEN st
    ELSE rehash_from(rehash_chain(st, old_buckets[i], new_bucket_count),
                     old_buckets, i + 1, old_count, new_bucket_count)

\* a resize that copies the old bucket array into the new one
resize_hash_table_copy(store, new_bucket_count) ==
    [store EXCEPT !.buckets = [i \in 0..(new_bucket_count - 1) |->
                                    IF i < store.bucket_count THEN store.buckets[i] ELSE NULL],
                  !.bucket_count = new_bucket_count]

resize_hash_table(store, new_bucket_count) ==
    LET fresh == [store EXCEPT !.buckets = [i \in 0..(new_bucket_count - 1) |-> NULL],
                               !.bucket_count = new_bucket_count]
    IN  rehash_from(fresh, store.buckets, 0, store.bucket_count, new_bucket_count)

\* create_entry: the entry object with the key and the value copied into the arena
create_entry(key_data, key_len, value, hash) ==
    [key |-> kvstore_string_create_arena(key_data, key_len),
     value |-> kvstore_value_copy_arena(value),
     hash |-> hash,
     next |-> NULL]

kvstore_clear(store) ==
    [store EXCEPT !.arena = <<>>,
                  !.buckets = [i \in 0..(store.bucket_count - 1) |-> NULL],
                  !.entry_count = 0]

kvstore_size(store) == store.entry_count
kvstore_capacity(store) == store.bucket_count

\* the insert path of kvstore_put_value, after the lookup found no entry
put_insert(store, key_data, key_len, value, hash) ==
    LET st == IF kvstore_load_factor_ge_max(store)
              THEN resize_hash_table(store, store.bucket_count * 2)
              ELSE store
        new_entry == arena_alloc(st.arena)
        index == U32Mod(hash, st.bucket_count)
        e == [create_entry(key_data, key_len, value, hash) EXCEPT !.next = st.buckets[index]]
    IN  [st EXCEPT !.arena = ArenaStore(st.arena, new_entry, e),
                   !.buckets[index] = new_entry,
                   !.entry_count = st.entry_count + 1]

\* an update that also counts the key once more
put_update_counting(store, existing, value) ==
    [store EXCEPT !.arena[existing].value = kvstore_value_copy_arena(value),
                  !.entry_count = store.entry_count + 1]

\* the update path of kvstore_put_value: overwrite the value in place
put_update(store, existing, value) ==
    [store EXCEPT !.arena[existing].value = kvstore_value_copy_arena(value)]

\* kvstore_put_value: the error and the table after the call
kvstore_put_value(store, key_data, key_len, value) ==
    IF value = NoValue THEN [err |-> KVSTORE_ERROR_NULL_POINTER, store |-> store]
    ELSE IF key_data = NullPtr \/ key_len = 0
         THEN [err |-> KVSTORE_ERROR_INVALID_KEY, store |-> store]
    ELSE IF key_len > KVSTORE_MAX_STRING_SIZE
         THEN [err |-> KVSTORE_ERROR_STRING_TOO_LARGE, store |-> store]
    ELSE LET hash == hash_key(key_data, key_len)
             existing == find_entry(store, key_data, key_len, hash)
         IN  IF existing # NULL
             THEN [err |-> KVSTORE_OK, store |-> put_update(store, existing, value)]
             ELSE [err |-> KVSTORE_OK,
                   store |-> put_insert(store, key_data, key_len, value, hash)]

\* kvstore_value_copy_arena when arena_alloc returns NULL for the payload:
\* kvstore_string_create_arena returns {0}, which is a null value for a
\* payload that is not empty and a string or binary value of no data for
\* an empty one; the other types allocate nothing
kvstore_value_copy_arena_nomem(src) ==
    IF src # NoValue /\ src.type \in {KVSTORE_TYPE_STRING, KVSTORE_TYPE_BINARY}
    THEN IF src.len > 0 THEN kvstore_value_create_null
         ELSE [type |-> src.type, len |-> NullString.len, data |-> NullString.data]
    ELSE kvstore_value_copy_arena(src)

\* kvstore_put_value when the arena has room for the entry and for the key,
\* and malloc fails for the block the payload needs: the call differs
\* from kvstore_put_value in the value it stores
kvstore_put_value_nomem(store, key_data, key_len, value) ==
    LET r == kvstore_put_value(store, key_data, key_len, value)
        entry == find_entry(r.store, key_data, key_len, hash_key(key_data, key_len))
    IN  IF r.err # KVSTORE_OK THEN r
        ELSE [r EXCEPT !.store.arena[entry].value = kvstore_value_copy_arena_nomem(value)]

\* kvstore_get_value: the error and *value, the address of the entry whose
\* value field the caller may read
kvstore_get_value(store, key_data, key_len) ==
    IF key_data = NullPtr \/ key_len = 0
    THEN [err |-> KVSTORE_ERROR_INVALID_KEY, value |-> NULL]
    ELSE IF key_len > KVSTORE_MAX_STRING_SIZE
         THEN [err |-> KVSTORE_ERROR_STRING_TOO_LARGE, value |-> NULL]
    ELSE LET entry == find_entry(store, key_data, key_len, hash_key(key_data, key_len))
         IN  IF entry = NULL THEN [err |-> KVSTORE_ERROR_KEY_NOT_FOUND, value |-> NULL]
             ELSE [err |-> KVSTORE_OK, value |-> entry]

\* kvstore_delete_key, the while over the chain: the table with the entry of
\* the key unlinked, or the table itself when the chain does not hold it
RECURSIVE delete_in_chain(_, _, _, _, _, _, _)
delete_in_chain(store, index, prev, entry, key_data, key_len, hash) ==
    IF entry = NULL THEN [err |-> KVSTORE_ERROR_KEY_NOT_FOUND, store |-> store]
    ELSE IF store.arena[entry].hash = hash /\ store.arena[entry].key.len = key_len
            /\ SubSeq(store.arena[entry].key.data, 1, key_len) = SubSeq(key_data, 1, key_len)
         THEN [err |-> KVSTORE_OK,
               store |-> LET unlinked ==
                                 IF prev # NULL
                                 THEN [store EXCEPT !.arena[prev].next = store.arena[entry].next]
                                 ELSE [store EXCEPT !.buckets[index] = store.arena[entry].next]
                         IN  [unlinked EXCEPT !.entry_count = store.entry_count - 1]]
         ELSE delete_in_chain(store, index, entry, store.arena[entry].next,
                              key_data, key_len, hash)

kvstore_delete_key(store, key_data, key_len) ==
    IF key_data = NullPtr \/ key_len = 0
    THEN [err |-> KVSTORE_ERROR_INVALID_KEY, store |-> store]
    ELSE IF key_len > KVSTORE_MAX_STRING_SIZE
         THEN [err |-> KVSTORE_ERROR_STRING_TOO_LARGE, store |-> store]
    ELSE LET hash == hash_key(key_data, key_len)
             index == U32Mod(hash, store.bucket_count)
         IN  delete_in_chain(store, index, NULL, store.buckets[index], key_data, key_len, hash)

kvstore_exists_key(store, key_data, key_len) ==
    IF key_data = NullPtr \/ key_len = 0 \/ key_len > KVSTORE_MAX_STRING_SIZE THEN FALSE
    ELSE find_entry(store, key_data, key_len, hash_key(key_data, key_len)) # NULL

\* --------------------------------------------------------------- iterator

RECURSIVE iter_skip_empty(_, _)
\* the while of kvstore_iter_begin: advance to the first non-empty bucket
iter_skip_empty(store, iter) ==
    IF iter.bucket_index < store.bucket_count /\ iter.current_entry = NULL
    THEN LET i == iter.bucket_index + 1
         IN  iter_skip_empty(store,
                 [bucket_index |-> i,
                  current_entry |-> IF i < store.bucket_count THEN store.buckets[i]
                                    ELSE iter.current_entry])
    ELSE iter

kvstore_iter_begin(store) ==
    iter_skip_empty(store, [bucket_index |-> 0, current_entry |-> store.buckets[0]])

kvstore_iter_valid(store, iter) ==
    iter.bucket_index < store.bucket_count /\ iter.current_entry # NULL

RECURSIVE iter_next_bucket(_, _)
\* the while of kvstore_iter_next: the first non-empty bucket from index i on
iter_next_bucket(store, i) ==
    IF i < store.bucket_count
    THEN IF store.buckets[i] # NULL
         THEN [bucket_index |-> i, current_entry |-> store.buckets[i]]
         ELSE iter_next_bucket(store, i + 1)
    ELSE [bucket_index |-> i, current_entry |-> NULL]

\* an iterator that stays in the bucket it is in
kvstore_iter_next_in_bucket(store, iter) ==
    [iter EXCEPT !.current_entry = IF iter.current_entry = NULL THEN NULL
                                   ELSE store.arena[iter.current_entry].next]

kvstore_iter_next(store, iter) ==
    IF iter.current_entry = NULL THEN iter
    ELSE IF store.arena[iter.current_entry].next # NULL
         THEN [iter EXCEPT !.current_entry = store.arena[iter.current_entry].next]
         ELSE iter_next_bucket(store, iter.bucket_index + 1)

\* ------------------------------------------------------------ byte order

Reverse(b) == [i \in 1..Len(b) |-> b[Len(b) + 1 - i]]

\* The bytes in memory of an integer given most significant byte first, and
\* back: reversed on a little-endian host.
HostBytes(le, x) == IF le THEN Reverse(x) ELSE x

\* htonl_portable on a uint32_t given most significant byte first: the four
\* masks and shifts swap the bytes on a little-endian host
htonl_portable(le, hostlong) ==
    IF le THEN <<hostlong[4], hostlong[3], hostlong[2], hostlong[1]>> ELSE hostlong

ntohl_portable(le, netlong) == htonl_portable(le, netlong)

\* htonll_portable: ((uint64_t)htonl(high) << 32) | htonl(low)
htonll_portable(le, hostlonglong) ==
    IF le
    THEN LET low == SubSeq(hostlonglong, 5, 8)
             high == SubSeq(hostlonglong, 1, 4)
         IN  htonl_portable(le, high) \o htonl_portable(le, low)
    ELSE hostlonglong

\* an ntohll that swaps nothing
ntohll_identity(le, netlonglong) == netlonglong

ntohll_portable(le, netlonglong) == htonll_portable(le, netlonglong)

\* a small uint32_t as its four bytes, most significant first
U32Bytes(n) == <<(n \div 16777216) % 256, (n \div 65536) % 256, (n \div 256) % 256, n % 256>>

\* the number of four bytes, most significant first; a number of 2^31 or
\* more is far over every bound it is compared with and stands as 2^31 - 1
U32Value(b) ==
    IF b[1] >= 128 THEN 2147483647
    ELSE b[1] * 16777216 + b[2] * 65536 + b[3] * 256 + b[4]

\* ------------------------------------------------------------ persistence

\* write_value: the bytes written for a value
write_value(le, value) ==
    <<value.type>> \o
    (IF value.type = KVSTORE_TYPE_NULL THEN <<>>
     ELSE IF value.type \in {KVSTORE_TYPE_STRING, KVSTORE_TYPE_BINARY}
          THEN HostBytes(le, htonl_portable(le, U32Bytes(value.len)))
               \o (IF value.len > 0 THEN SubSeq(value.data, 1, value.len) ELSE <<>>)
     ELSE IF value.type = KVSTORE_TYPE_INT64
          THEN HostBytes(le, htonll_portable(le, value.data))
     ELSE IF value.type = KVSTORE_TYPE_DOUBLE THEN HostBytes(le, value.data)
     ELSE <<value.data[1]>>)

RECURSIVE save_entries(_, _, _)
\* the while of kvstore_save over the iterator
save_entries(le, store, iter) ==
    IF ~kvstore_iter_valid(store, iter) THEN <<>>
    ELSE LET entry == store.arena[iter.current_entry]
         IN  HostBytes(le, htonl_portable(le, U32Bytes(entry.key.len)))
             \o SubSeq(entry.key.data, 1, entry.key.len)
             \o write_value(le, entry.value)
             \o save_entries(le, store, kvstore_iter_next(store, iter))

\* kvstore_save: the bytes of the file after a save whose writes all succeed
kvstore_save(le, store) ==
    HostBytes(le, htonl_portable(le, MAGIC_NUMBER))
    \o <<KVSTORE_VERSION_MAJOR, KVSTORE_VERSION_MINOR, KVSTORE_VERSION_PATCH>>
    \o HostBytes(le, htonl_portable(le, U32Bytes(kvstore_size(store))))
    \o save_entries(le, store, kvstore_iter_begin(store))

\* read_full of size bytes at offset pos: whether the file holds them all
read_ok(file, pos, size) == pos + size <= Len(file)
read_bytes(file, pos, size) == SubSeq(file, pos + 1, pos + size)

\* a uint32_t read from the file into memory, as a number's bytes
read_u32(le, file, pos) == ntohl_portable(le, HostBytes(le, read_bytes(file, pos, 4)))

\* read_value at offset pos: the error, the value and the offset after it
read_value(le, file, pos) ==
    IF ~read_ok(file, pos, 1) THEN [err |-> KVSTORE_ERROR_IO, value |-> NoValue, pos |-> pos]
    ELSE LET type == file[pos + 1]
             p1 == pos + 1
         IN
         IF type < KVSTORE_TYPE_NULL \/ type > KVSTORE_TYPE_BINARY
         THEN [err |-> KVSTORE_ERROR_INVALID_FORMAT, value |-> NoValue, pos |-> p1]
         ELSE IF type = KVSTORE_TYPE_NULL
         THEN [err |-> KVSTORE_OK, value |-> kvstore_value_create_null, pos |-> p1]
         ELSE IF type \in {KVSTORE_TYPE_STRING, KVSTORE_TYPE_BINARY}
         THEN IF ~read_ok(file, p1, 4)
              THEN [err |-> KVSTORE_ERROR_IO, value |-> NoValue, pos |-> p1]
              ELSE LET len == U32Value(read_u32(le, file, p1))
                   IN  IF len > KVSTORE_MAX_STRING_SIZE
                       THEN [err |-> KVSTORE_ERROR_STRING_TOO_LARGE, value |-> NoValue,
                             pos |-> p1 + 4]
                       ELSE IF len = 0
                       THEN [err |-> KVSTORE_OK,
                             value |-> [type |-> type, len |-> 0, data |-> <<>>],
                             pos |-> p1 + 4]
                       ELSE IF ~read_ok(file, p1 + 4, len)
                       THEN [err |-> KVSTORE_ERROR_IO, value |-> NoValue, pos |-> p1 + 4]
                       ELSE [err |-> KVSTORE_OK,
                             value |-> [type |-> type, len |-> len,
                                        data |-> read_bytes(file, p1 + 4, len)],
                             pos |-> p1 + 4 + len]
         ELSE IF type = KVSTORE_TYPE_INT64
         THEN IF ~read_ok(file, p1, 8)
              THEN [err |-> KVSTORE_ERROR_IO, value |-> NoValue, pos |-> p1]
              ELSE [err |-> KVSTORE_OK,
                    value |-> kvstore_value_create_int64(
                                  ntohll_portable(le, HostBytes(le, read_bytes(file, p1, 8)))),
                    pos |-> p1 + 8]
         ELSE IF type = KVSTORE_TYPE_DOUBLE
         THEN IF ~read_ok(file, p1, 8)
              THEN [err |-> KVSTORE_ERROR_IO, value |-> NoValue, pos |-> p1]
              ELSE [err |-> KVSTORE_OK,
                    value |-> kvstore_value_create_double(HostBytes(le, read_bytes(file, p1, 8))),
                    pos |-> p1 + 8]
         ELSE IF ~read_ok(file, p1, 1)
              THEN [err |-> KVSTORE_ERROR_IO, value |-> NoValue, pos |-> p1]
              ELSE [err |-> KVSTORE_OK,
                    value |-> kvstore_value_create_bool(<<IF file[p1 + 1] # 0 THEN 1 ELSE 0>>),
                    pos |-> p1 + 1]

RECURSIVE load_entries(_, _, _, _, _, _)
\* the for of kvstore_load: entries i..count-1 read at offset pos and put
load_entries(le, store, file, pos, i, count) ==
    IF i >= count THEN [err |-> KVSTORE_OK, store |-> store]
    ELSE IF ~read_ok(file, pos, 4) THEN [err |-> KVSTORE_ERROR_IO, store |-> store]
    ELSE LET key_len == U32Value(read_u32(le, file, pos)) IN
         IF key_len = 0 \/ key_len > KVSTORE_MAX_STRING_SIZE
         THEN [err |-> KVSTORE_ERROR_STRING_TOO_LARGE, store |-> store]
         ELSE IF ~read_ok(file, pos + 4, key_len)
         THEN [err |-> KVSTORE_ERROR_IO, store |-> store]
         ELSE LET key_data == read_bytes(file, pos + 4, key_len)
                  rv == read_value(le, file, pos + 4 + key_len)
              IN  IF rv.err # KVSTORE_OK THEN [err |-> rv.err, store |-> store]
                  ELSE LET put == kvstore_put_value(store, key_data, key_len, rv.value)
                       IN  IF put.err # KVSTORE_OK THEN put
                           ELSE load_entries(le, put.store, file, rv.pos, i + 1, count)

\* a file that does not exist
NoFile == <<-1>>

\* kvstore_load up to the kvstore_clear: the error it returns before it has
\* touched the table, or KVSTORE_OK when it goes on to clear it
load_header(le, file) ==
    IF file = NoFile THEN KVSTORE_ERROR_IO
    ELSE IF ~read_ok(file, 0, 4) THEN KVSTORE_ERROR_IO
    ELSE IF read_u32(le, file, 0) # MAGIC_NUMBER THEN KVSTORE_ERROR_INVALID_FORMAT
    ELSE IF ~read_ok(file, 4, 3) THEN KVSTORE_ERROR_IO
    ELSE IF ~read_ok(file, 7, 4) THEN KVSTORE_ERROR_IO
    ELSE KVSTORE_OK

\* a load that puts the entries of the file into the table as it is
kvstore_load_keep(le, store, file) ==
    IF load_header(le, file) # KVSTORE_OK
    THEN [err |-> load_header(le, file), store |-> store]
    ELSE load_entries(le, store, file, 11, 0, U32Value(read_u32(le, file, 7)))

\* kvstore_load: the error and the table after loading the file
kvstore_load(le, store, file) ==
    IF load_header(le, file) # KVSTORE_OK
    THEN [err |-> load_header(le, file), store |-> store]
    ELSE load_entries(le, kvstore_clear(store), file, 11, 0, U32Value(read_u32(le, file, 7)))

\* ---------------------------------------------------------- typed getters

\* kvstore_get_string .. kvstore_get_binary: the getter of the given type on
\* a C-string key; value is the payload written through the out parameter
kvstore_get_typed(store, key, type) ==
    IF key = NullPtr THEN [err |-> KVSTORE_ERROR_NULL_POINTER, value |-> NoValue]
    ELSE IF Len(key) > KVSTORE_MAX_STRING_SIZE
         THEN [err |-> KVSTORE_ERROR_STRING_TOO_LARGE, value |-> NoValue]
    ELSE LET r == kvstore_get_value(store, key, Len(key)) IN
         IF r.err # KVSTORE_OK THEN [err |-> r.err, value |-> NoValue]
         ELSE IF store.arena[r.value].value.type # type
              THEN [err |-> KVSTORE_ERROR_TYPE_MISMATCH, value |-> NoValue]
              ELSE [err |-> KVSTORE_OK, value |-> store.arena[r.value].value]

RECURSIVE strlen(_)
\* the length of the C string at data: the bytes before the first NUL (the
\* arena copy is followed by a NUL terminator)
strlen(data) ==
    IF data = <<>> \/ Head(data) = 0 THEN 0 ELSE 1 + strlen(Tail(data))

strdup(data) == SubSeq(data, 1, strlen(data))

\* kvapi_get_string .. kvapi_get_bool: the facade getters; the string one
\* hands out strdup(str->data)
kvapi_get_typed(store, key, type) ==
    IF key = NullPtr THEN [err |-> KVSTORE_ERROR_NULL_POINTER, value |-> NoValue]
    ELSE LET r == kvstore_get_typed(store, key, type) IN
         IF r.err = KVSTORE_OK /\ type = KVSTORE_TYPE_STRING
         THEN [err |-> KVSTORE_OK,
               value |-> [type |-> type, len |-> strlen(r.value.data),
                          data |-> strdup(r.value.data)]]
         ELSE r

\* a kvapi_delete that sets *deleted whatever kvstore_delete_key returned
kvapi_delete_always(store, key, deleted) ==
    IF key = NullPtr
    THEN [err |-> KVSTORE_ERROR_NULL_POINTER, deleted |-> deleted, store |-> store]
    ELSE LET r == kvstore_delete_key(store, key, Len(key))
         IN  [err |-> r.err, deleted |-> TRUE, store |-> r.store]

\* kvapi_delete: the error, *deleted and the table after the call; deleted is
\* what *deleted held before it, which a null key leaves there
kvapi_delete(store, key, deleted) ==
    IF key = NullPtr
    THEN [err |-> KVSTORE_ERROR_NULL_POINTER, deleted |-> deleted, store |-> store]
    ELSE LET r == kvstore_delete_key(store, key, Len(key))
         IN  [err |-> r.err, deleted |-> (r.err = KVSTORE_OK), store |-> r.store]

kvapi_exists(store, key) ==
    IF key = NullPtr THEN FALSE ELSE kvstore_exists_key(store, key, Len(key))

\* ----------------------------------------------------- the server's replies


CRLF == <<13, 10>>
\* "+OK\r\n" and "$-1\r\n"
RESP_OK == <<43, 79, 75>> \o CRLF
RESP_NULL == <<36, 45, 49>> \o CRLF

\* the largest size_t, for which the largest number of the checker stands
SIZE_MAX == 2147483647
\* a - b in size_t arithmetic
size_sub(a, b) == IF a >= b THEN a - b ELSE SIZE_MAX - (b - a) + 1

RECURSIVE Decimal(_)
\* snprintf of "%zu" or of "%ld" for a number that is not negative
Decimal(n) == IF n < 10 THEN <<48 + n>> ELSE Decimal(n \div 10) \o <<48 + (n % 10)>>

\* kvstore_error_string
kvstore_error_string(error) ==
    IF error = KVSTORE_OK THEN <<83, 117, 99, 99, 101, 115, 115>>
    ELSE IF error = KVSTORE_ERROR_NULL_POINTER
         THEN <<78, 117, 108, 108, 32, 112, 111, 105, 110, 116, 101, 114>>
    ELSE IF error = KVSTORE_ERROR_INVALID_KEY
         THEN <<73, 110, 118, 97, 108, 105, 100, 32, 107, 101, 121>>
    ELSE IF error = KVSTORE_ERROR_CAPACITY_FULL
         THEN <<67, 97, 112, 97, 99, 105, 116, 121, 32, 102, 117, 108, 108>>
    ELSE IF error = KVSTORE_ERROR_KEY_NOT_FOUND
         THEN <<75, 101, 121, 32, 110, 111, 116, 32, 102, 111, 117, 110, 100>>
    ELSE IF error = KVSTORE_ERROR_MEMORY
         THEN <<77, 101, 109, 111, 114, 121, 32, 97, 108, 108, 111, 99, 97, 116, 105, 111, 110, 32, 102, 97, 105, 108, 101, 100>>
    ELSE IF error = KVSTORE_ERROR_IO
         THEN <<73, 47, 79, 32, 101, 114, 114, 111, 114>>
    ELSE IF error = KVSTORE_ERROR_INVALID_FORMAT
         THEN <<73, 110, 118, 97, 108, 105, 100, 32, 102, 111, 114, 109, 97, 116>>
    ELSE IF error = KVSTORE_ERROR_STRING_TOO_LARGE
         THEN <<83, 116, 114, 105, 110, 103, 32, 116, 111, 111, 32, 108, 97, 114, 103, 101>>
    ELSE IF error = KVSTORE_ERROR_TYPE_MISMATCH
         THEN <<84, 121, 112, 101, 32, 109, 105, 115, 109, 97, 116, 99, 104>>
    ELSE IF error = KVSTORE_ERROR_INVALID_TYPE
         THEN <<73, 110, 118, 97, 108, 105, 100, 32, 116, 121, 112, 101>>
    ELSE <<85, 110, 107, 110, 111, 119, 110, 32, 101, 114, 114, 111, 114>>

\* the messages the server passes to send_error
server_errors ==
    [
     \* "Invalid command format"
     invalid_command |->
        <<73, 110, 118, 97, 108, 105, 100, 32, 99, 111, 109, 109, 97, 110, 100, 32, 102, 111, 114, 109, 97, 116>>,
     \* "Wrong number of arguments"
     wrong_args |->
        <<87, 114, 111, 110, 103, 32, 110, 117, 109, 98, 101, 114, 32, 111, 102, 32, 97, 114, 103, 117, 109, 101, 110, 116, 115>>,
     \* "Unknown command"
     unknown_command |->
        <<85, 110, 107, 110, 111, 119, 110, 32, 99, 111, 109, 109, 97, 110, 100>>,
     \* "Invalid key format"
     invalid_key |->
        <<73, 110, 118, 97, 108, 105, 100, 32, 107, 101, 121, 32, 102, 111, 114, 109, 97, 116>>,
     \* "Value too large"
     value_too_large |->
        <<86, 97, 108, 117, 101, 32, 116, 111, 111, 32, 108, 97, 114, 103, 101>>,
     \* "Command too long"
     command_too_long |->
        <<67, 111, 109, 109, 97, 110, 100, 32, 116, 111, 111, 32, 108, 111, 110, 103>>]

\* A client_t is a record of its state ("closed" when there is none, "open",
\* or "overrun" once bytes were copied past the end of write_buffer), its
\* read_buffer, the read_len bytes read and not processed yet, and its
\* write_buffer, the write_len bytes to write to the socket. epollout is
\* whether the events its fd is registered for in epoll include EPOLLOUT.

\* send_response: the client with the response appended to write_buffer and
\* its fd registered for EPOLLOUT, or as it is when the response does not fit
\* the reply put in front of the bytes that wait in write_buffer
send_response_front(client, response) ==
    IF Len(response) > size_sub(size_sub(BUFFER_SIZE, Len(client.write_buffer)), 1)
    THEN client
    ELSE [client EXCEPT !.write_buffer =
            SubSeq(@, 1, client.write_pos) \o response \o SubSeq(@, client.write_pos + 1, Len(@)),
                        !.epollout = TRUE]

send_response(client, response) ==
    IF Len(response) > size_sub(size_sub(BUFFER_SIZE, Len(client.write_buffer)), 1)
    THEN client
    ELSE [client EXCEPT !.write_buffer = @ \o response, !.epollout = TRUE]

\* send_error: "-ERR " message "\r\n"
send_error(client, error_msg) ==
    send_response(client, <<45, 69, 82, 82, 32>> \o error_msg \o CRLF)

\* send_integer: ":" value "\r\n"
send_integer(client, value) == send_response(client, <<58>> \o Decimal(value) \o CRLF)

\* send_bulk_string: the header "$" len "\r\n" through send_response, then
\* the bytes and "\r\n" when len <= BUFFER_SIZE - write_len - 3 in size_t
\* arithmetic. With write_len above BUFFER_SIZE - 3 the difference wraps and
\* the bytes are copied whatever their number: those past the end of
\* write_buffer land in the fields that follow it, and the client is overrun.
send_bulk_string(client, str, len) ==
    LET h == send_response(client, <<36>> \o Decimal(len) \o CRLF)
        write_len == Len(h.write_buffer)
        copied == h.write_buffer \o SubSeq(str, 1, len) \o CRLF
    IN  IF len > 0 /\ str # NullPtr
        THEN IF len <= size_sub(size_sub(BUFFER_SIZE, write_len), 3)
             THEN IF Len(copied) > BUFFER_SIZE
                  THEN [h EXCEPT !.state = "overrun",
                                 !.write_buffer = SubSeq(copied, 1, BUFFER_SIZE)]
                  ELSE [h EXCEPT !.write_buffer = copied]
             ELSE h
        ELSE send_response(h, CRLF)

RECURSIVE strtok(_, _, _)
\* the tokens strtok(line, " \t") hands out from byte i on, tok being the
\* bytes of the token under way
strtok(line, i, tok) ==
    IF i > Len(line) THEN (IF tok = <<>> THEN <<>> ELSE <<tok>>)
    ELSE IF line[i] \in {32, 9}
         THEN (IF tok = <<>> THEN <<>> ELSE <<tok>>) \o strtok(line, i + 1, <<>>)
         ELSE strtok(line, i + 1, Append(tok, line[i]))

\* parse_command: args, at most MAX_COMMAND_ARGS - 1 tokens of the line
parse_command(line) ==
    LET all == strtok(line, 1, <<>>)
    IN  IF Len(all) > MAX_COMMAND_ARGS - 1 THEN SubSeq(all, 1, MAX_COMMAND_ARGS - 1) ELSE all

\* strcasecmp(a, b) == 0
strcasecmp_eq(a, b) ==
    LET upper(x) == IF x \in 97..122 THEN x - 32 ELSE x
    IN  Len(a) = Len(b) /\ \A i \in 1..Len(a) : upper(a[i]) = upper(b[i])

\* server_commands, the commands this model runs: PING, SET, GET, DEL,
\* EXISTS, KEYS, CLEAR and QUIT
server_commands ==
    <<[name |-> <<80, 73, 78, 71>>, handler |-> "cmd_ping", min_args |-> 0, max_args |-> 1],
      [name |-> <<83, 69, 84>>, handler |-> "cmd_set", min_args |-> 2, max_args |-> 0],
      [name |-> <<71, 69, 84>>, handler |-> "cmd_get", min_args |-> 1, max_args |-> 1],
      [name |-> <<68, 69, 76>>, handler |-> "cmd_del", min_args |-> 1, max_args |-> 1],
      [name |-> <<69, 88, 73, 83, 84, 83>>, handler |-> "cmd_exists", min_args |-> 1, max_args |-> 1],
      [name |-> <<75, 69, 89, 83>>, handler |-> "cmd_keys", min_args |-> 0, max_args |-> 0],
      [name |-> <<67, 76, 69, 65, 82>>, handler |-> "cmd_clear", min_args |-> 0, max_args |-> 0],
      [name |-> <<81, 85, 73, 84>>, handler |-> "cmd_quit", min_args |-> 0, max_args |-> 0]>>

kv_validate_key(key) == Len(key) # 0 /\ Len(key) <= KVSTORE_MAX_STRING_SIZE
kv_validate_value_len(value_len) == value_len <= KVSTORE_MAX_STRING_SIZE

RECURSIVE strcat_args(_, _)
\* cmd_set: args[i] .. args[argc - 1] joined by single spaces
strcat_args(args, i) ==
    IF i > Len(args) THEN <<>>
    ELSE IF i = Len(args) THEN args[i]
    ELSE args[i] \o <<32>> \o strcat_args(args, i + 1)

\* ------------------------------------------------------------------ inputs

\* Two keys that share bucket 12 of 16 and part on the resize to 32 ("a" and
\* "q"), and filler keys "b", "c", ... that a snapshot file brings in, to
\* fill the table up to the resize.
TestKeys == {<<97>>, <<113>>}
FillerKey(i) == <<97 + i>>
FillerKeys == {FillerKey(i) : i \in 1..NumFillers}
ValidKeys == TestKeys \cup FillerKeys

\* a key argument: the pointer and the length handed to the engine
KeyArg(k) == [data |-> k, len |-> Len(k)]
NullKey == [data |-> NullPtr, len |-> 1]
EmptyKey == [data |-> <<>>, len |-> 0]
OversizeKey == [data |-> [i \in 1..(KVSTORE_MAX_STRING_SIZE + 1) |-> 97],
                len |-> KVSTORE_MAX_STRING_SIZE + 1]
InvalidKeyArgs == {NullKey, EmptyKey, OversizeKey}
KeyArgs == {KeyArg(k) : k \in TestKeys} \cup InvalidKeyArgs
\* the keys handed to the typed getters, which take a C string
CStringArgs == {KeyArg(k) : k \in TestKeys} \cup {NullKey}

StringValue(type, data) == [type |-> type, len |-> Len(data), data |-> data]
V_INT == kvstore_value_create_int64(<<0, 0, 0, 0, 0, 0, 0, 30>>)
V_DOUBLE == kvstore_value_create_double(<<64, 9, 33, 251, 84, 68, 45, 24>>)
V_BOOL == kvstore_value_create_bool(<<1>>)
V_STRING == StringValue(KVSTORE_TYPE_STRING, <<120>>)
V_BINARY == StringValue(KVSTORE_TYPE_BINARY, <<0, 255>>)
\* a string of exactly the limit, with a NUL inside, and strings and blobs
\* of one byte more
V_EXACT == StringValue(KVSTORE_TYPE_STRING,
                       [i \in 1..KVSTORE_MAX_STRING_SIZE |-> IF i = 2 THEN 0 ELSE 120])
V_OVER == StringValue(KVSTORE_TYPE_STRING, [i \in 1..(KVSTORE_MAX_STRING_SIZE + 1) |-> 120])
V_BINARY_OVER == StringValue(KVSTORE_TYPE_BINARY, [i \in 1..(KVSTORE_MAX_STRING_SIZE + 1) |-> 7])

ValuesOf(k) ==
    IF k = <<97>>
    THEN {kvstore_value_create_null, V_INT, V_DOUBLE, V_BOOL, V_STRING, V_BINARY,
          V_EXACT, V_OVER, V_BINARY_OVER, NoValue}
    ELSE {V_INT}

GetterTypes == {KVSTORE_TYPE_STRING, KVSTORE_TYPE_INT64, KVSTORE_TYPE_DOUBLE,
                KVSTORE_TYPE_BOOL, KVSTORE_TYPE_BINARY}

\* snapshot files as a little-endian host writes them
FileHeader(count) ==
    <<75, 86, 219, 2, KVSTORE_VERSION_MAJOR, KVSTORE_VERSION_MINOR, KVSTORE_VERSION_PATCH,
      0, 0, 0, count>>
FileEntryA_Int == <<0, 0, 0, 1, 97, KVSTORE_TYPE_INT64, 0, 0, 0, 30, 0, 0, 0, 0>>
FileEntryQ_Str == <<0, 0, 0, 1, 113, KVSTORE_TYPE_STRING, 0, 0, 0, 1, 120>>
FileEntryA_Bool == <<0, 0, 0, 1, 97, KVSTORE_TYPE_BOOL, 1>>
RECURSIVE FileFillers(_)
FileFillers(n) ==
    IF n = 0 THEN <<>>
    ELSE FileFillers(n - 1) \o <<0, 0, 0, 1>> \o FillerKey(n) \o <<KVSTORE_TYPE_BOOL, 1>>
\* Each file with what a load of it is to leave: the error, whether the
\* table was cleared, and the keys put.
Snapshots ==
    {[bytes |-> FileHeader(2) \o FileEntryA_Int \o FileEntryQ_Str,
      err |-> KVSTORE_OK, cleared |-> TRUE,
      puts |-> <<[key |-> <<97>>, value |-> V_INT], [key |-> <<113>>, value |-> V_STRING]>>],
     \* the filler keys
     [bytes |-> FileHeader(NumFillers) \o FileFillers(NumFillers),
      err |-> KVSTORE_OK, cleared |-> TRUE,
      puts |-> [i \in 1..NumFillers |-> [key |-> FillerKey(i), value |-> V_BOOL]]],
     \* the same key twice
     [bytes |-> FileHeader(2) \o FileEntryA_Int \o FileEntryA_Bool,
      err |-> KVSTORE_OK, cleared |-> TRUE,
      puts |-> <<[key |-> <<97>>, value |-> V_INT], [key |-> <<97>>, value |-> V_BOOL]>>],
     \* cut short inside the second entry
     [bytes |-> FileHeader(2) \o FileEntryQ_Str \o <<0, 0, 0, 1>>,
      err |-> KVSTORE_ERROR_IO, cleared |-> TRUE,
      puts |-> <<[key |-> <<113>>, value |-> V_STRING]>>],
     \* not a snapshot
     [bytes |-> <<75, 86, 219, 3, 3, 0, 0, 0, 0, 0, 0>>,
      err |-> KVSTORE_ERROR_INVALID_FORMAT, cleared |-> FALSE, puts |-> <<>>],
     [bytes |-> NoFile, err |-> KVSTORE_ERROR_IO, cleared |-> FALSE, puts |-> <<>>]}

\* ------------------------------------------------------------------- state

VARIABLES
    store,          \* the kvstore_t of the handle
    little_endian,  \* whether the host is little-endian
    ret,            \* the last call: its arguments and what it returned
    shadow,         \* per key, the value of its latest successful put (NoValue:
                    \* none, or deleted or cleared since)
    disk,           \* the bytes of the snapshot file, NoFile before the first save
    saved,          \* per key, what kvstore_get_value returned at the latest save
    round_trip,     \* how far a save, clear, load sequence has come
    mutex,          \* handle->mutex: the thread that holds it, or NoThread
    thread,         \* per thread, where it is in its call on the facade
    conn,           \* per client, its client_t
    handler,        \* per thread, where it is in the server's loop
    sock,           \* what the step just made has written to a socket
    now,            \* CLOCK_MONOTONIC, in seconds
    next_scan,      \* when the sleep of worker_thread ends
    active_connections,  \* g_server.active_connections
    handle,         \* the kvapi_handle_t: whether it is initialized, and the
                    \* auto_save of the config copied into it
    g_config,       \* the configuration of the program, which a command of
                    \* the CLI changes
    pool,           \* the arena_t of a store: blocks, current and the totals
    heap,           \* the arena blocks malloc has returned, in the order of
                    \* the calls, each with how many times it was freed
    trail,          \* what arena_alloc has returned since the latest
                    \* arena_clear, and the requests before that clear
    wire,           \* per client whose traffic is recorded, the bytes the
                    \* server has read from its socket and written to it
    g_server        \* g_server.running, and where run_server and
                    \* worker_thread are

engineVars == <<store, little_endian, ret, shadow>>
persistVars == <<disk, saved, round_trip>>
apiVars == <<mutex, thread>>
serverVars == <<conn, handler, sock, now, next_scan, active_connections>>
lifeVars == <<handle, g_config>>
arenaVars == <<pool, heap, trail>>
runVars == <<wire, g_server>>
vars == <<engineVars, persistVars, apiVars, serverVars, lifeVars, arenaVars, runVars>>
\* what the calls on the engine alone leave as it is
nonEngine == <<persistVars, apiVars, serverVars, lifeVars, arenaVars, runVars>>
\* what a save, clear, load sequence on the engine leaves as it is
nonPersist == <<apiVars, serverVars, lifeVars, arenaVars, runVars>>
\* what a call on the facade leaves as it is, the engine apart
nonApi == <<persistVars, serverVars, lifeVars, arenaVars, runVars>>

NoCall == [op |-> "none", key |-> EmptyKey, arg |-> NoValue, err |-> KVSTORE_OK,
           value |-> NoValue, flag |-> FALSE]

Call(op, key, arg, err, value, flag) ==
    [op |-> op, key |-> key, arg |-> arg, err |-> err, value |-> value, flag |-> flag]

NoShadow == [k \in ValidKeys |-> NoValue]

NotFound == [err |-> KVSTORE_ERROR_KEY_NOT_FOUND, value |-> NoValue]

InitEngine ==
    /\ store = kvstore_create(KVSTORE_MIN_CAPACITY)
    /\ ret = NoCall
    /\ shadow = NoShadow

InitPersist ==
    /\ disk = NoFile
    /\ saved = [k \in ValidKeys |-> NotFound]
    /\ round_trip = "none"

Threads == {1, 2}
NoThread == 0

\* a thread outside the facade; of a call that has returned, op, key, err
\* and value stay until the thread's next call
IdleThread ==
    [pc |-> "idle", op |-> "none", key |-> NullPtr, arg |-> NoValue, val |-> NULL,
     type |-> -1, err |-> KVSTORE_OK, value |-> NoValue, flag |-> FALSE,
     during |-> {}, cleared |-> FALSE, stale |-> NoValue]

InitApi ==
    /\ mutex = NoThread
    /\ thread = [t \in Threads |-> IdleThread]

Clients == {1, 2}

\* no client_t, and the client_t that create_client returns
NoClient ==
    [state |-> "closed", read_buffer |-> <<>>, write_buffer |-> <<>>, write_pos |-> 0,
     state_e |-> "READING_COMMAND", last_activity |-> 0, epollout |-> FALSE]
create_client == [NoClient EXCEPT !.state = "open"]
\* remove_client and destroy_client: what client held is freed
destroy_client(client) == NoClient

\* The clients the server takes at a time, MAX_CLIENTS of the source scaled
\* down to the clients of a run.
MAX_CLIENTS == 2

\* atomic_fetch_add of 1 on an atomic_size_t, and atomic_fetch_sub of 1, k
\* times: a size_t wraps
fetch_add(n) == IF n = SIZE_MAX THEN 0 ELSE n + 1
fetch_sub_times(n, k) == IF n >= k THEN n - k ELSE SIZE_MAX - (k - n - 1)
fetch_sub(n) == fetch_sub_times(n, 1)

\* a thread in epoll_wait. In handle_client_read, client is the client it
\* reads; present keeps whether the key of the command under way was in
\* the table when the command began; result is what process_client_command
\* returned for the last command of this read.
NoHandler == [pc |-> "epoll_wait", client |-> 0, present |-> FALSE, result |-> 0]

\* no write to a socket
NoWrite == [client |-> 0, bytes |-> <<>>]

InitServer ==
    /\ conn = [c \in Clients |-> NoClient]
    /\ sock = NoWrite
    /\ now = 0
    /\ next_scan = 0
    /\ active_connections = 0
    /\ handler = [t \in Threads |-> NoHandler]

\* ------------------------------------------- the arena, block by block

\* ARENA_BLOCK_SIZE, 64 KiB in the code, scaled down
ARENA_BLOCK_SIZE == 48
ARENA_ALIGNMENT == 8
\* sizeof(arena_block_t): next, size and used before the flexible data[]
BlockHeader == 24
\* how many blocks malloc gives in a run
MaxBlocks == 4
\* how many allocations succeed between two calls of arena_clear
MaxAllocs == 3
\* the sizes arena_alloc is called with: nothing, one aligned unit, a size
\* that is not a multiple of the alignment, and one larger than a block
AllocSizes == {0, 8, 17, 40}

\* a size taken as it is
align_size_none(size) ==
    size

\* align_size: (size + 7) & ~7, the next multiple of ARENA_ALIGNMENT
align_size(size) ==
    ((size + ARENA_ALIGNMENT - 1) \div ARENA_ALIGNMENT) * ARENA_ALIGNMENT

\* arena_create_block when malloc succeeds; freed counts the calls of free
\* on the block
arena_create_block(min_size) ==
    LET block_size == IF min_size > ARENA_BLOCK_SIZE - BlockHeader
                      THEN min_size + BlockHeader
                      ELSE ARENA_BLOCK_SIZE
    IN  [next |-> NULL, size |-> block_size - BlockHeader, used |-> 0, freed |-> 0]

\* arena_init: the arena_t of all zeroes
NoArena == [blocks |-> NULL, current |-> NULL, total_allocated |-> 0, total_used |-> 0]

\* the NULL that arena_alloc returns, as a range of a block
NullRange == [block |-> NULL, offset |-> 0, len |-> 0]

\* arena_alloc(arena, size) on the arena a with the blocks h, where malloc
\* has memory for a new block iff memory: the arena, the blocks, and the
\* range of size bytes returned. A block is its index in h.
arena_alloc_bytes(a, h, size, memory) ==
    IF size = 0 THEN [arena |-> a, heap |-> h, ptr |-> NullRange]
    ELSE LET n == align_size(size)
         IN  IF a.current # NULL /\ h[a.current].used + n <= h[a.current].size
             THEN [arena |-> [a EXCEPT !.total_used = @ + n],
                   heap |-> [h EXCEPT ![a.current].used = @ + n],
                   ptr |-> [block |-> a.current, offset |-> h[a.current].used, len |-> size]]
             ELSE IF ~memory THEN [arena |-> a, heap |-> h, ptr |-> NullRange]
             ELSE LET new_block == arena_create_block(n)
                      linked == IF a.current # NULL
                                THEN [new_block EXCEPT !.next = a.blocks]
                                ELSE new_block
                  IN  [arena |-> [blocks |-> IF a.current # NULL THEN a.current ELSE a.blocks,
                                  current |-> Len(h) + 1,
                                  total_allocated |-> a.total_allocated + new_block.size + BlockHeader,
                                  total_used |-> a.total_used + n],
                       heap |-> Append(h, [linked EXCEPT !.used = n]),
                       ptr |-> [block |-> Len(h) + 1, offset |-> 0, len |-> size]]

\* the loop of arena_clear over the list that starts at block: used = 0
RECURSIVE reset_blocks(_, _)
reset_blocks(h, block) ==
    IF block = NULL THEN h
    ELSE reset_blocks([h EXCEPT ![block].used = 0], h[block].next)

\* arena_clear, assignment by assignment
arena_clear(a, h) ==
    LET h1 == IF a.current # NULL THEN [h EXCEPT ![a.current].used = 0] ELSE h
        h2 == reset_blocks(h1, a.blocks)
    IN  IF a.current = NULL
        THEN [arena |-> [a EXCEPT !.total_used = 0], heap |-> h2]
        ELSE LET h3 == [h2 EXCEPT ![a.current].next = a.blocks]
                 a1 == [a EXCEPT !.blocks = a.current]
                 a2 == [a1 EXCEPT !.current = a1.blocks]
                 a3 == [a2 EXCEPT !.blocks = h3[a2.current].next]
                 h4 == [h3 EXCEPT ![a3.current].next = NULL]
             IN  [arena |-> [a3 EXCEPT !.total_used = 0], heap |-> h4]

\* the loop of arena_destroy over the list that starts at block: free
RECURSIVE free_blocks(_, _)
free_blocks(h, block) ==
    IF block = NULL THEN h
    ELSE free_blocks([h EXCEPT ![block].freed = @ + 1], h[block].next)

\* arena_destroy: free of the current block, free of the blocks of the
\* list, and the arena_t set to zeroes
arena_destroy(a, h) ==
    LET h1 == IF a.current # NULL THEN [h EXCEPT ![a.current].freed = @ + 1] ELSE h
    IN  [arena |-> NoArena, heap |-> free_blocks(h1, a.blocks)]

NoTrail == [returned |-> <<>>, log |-> <<>>, cleared |-> FALSE,
            prev_log |-> <<>>, prev_blocks |-> 0, destroyed |-> FALSE]

\* the arena of a store that kvstore_create has just made
InitArena ==
    /\ pool = NoArena
    /\ heap = <<>>
    /\ trail = NoTrail

\* no record of the traffic of a client, and the record of a client that
\* has sent and received nothing yet
NoRecord == [on |-> FALSE, received |-> <<>>, replied |-> <<>>]
NewRecord == [NoRecord EXCEPT !.on = TRUE]

\* the records after the server has read input from client c, and after it
\* has written bytes to it
Received(w, c, input) ==
    IF c \in DOMAIN w /\ w[c].on THEN [w EXCEPT ![c].received = @ \o input] ELSE w
Replied(w, c, bytes) ==
    IF c \in DOMAIN w /\ w[c].on THEN [w EXCEPT ![c].replied = @ \o bytes] ELSE w

\* g_server.running as main sets it before run_server, with run_server in
\* its loop and worker_thread in its own
ServerUp == [running |-> TRUE, run_server |-> "epoll_wait", worker_thread |-> "running"]

\* a server that runs, and no traffic recorded
InitRun ==
    /\ wire = [c \in Clients |-> NoRecord]
    /\ g_server = ServerUp

\* the handle the program runs on, made by kvapi_init with auto_save on
InitLife ==
    /\ handle = [initialized |-> TRUE, auto_save |-> TRUE]
    /\ g_config = [auto_save |-> TRUE]

Init ==
    InitEngine /\ little_endian = TRUE /\ InitPersist /\ InitApi /\ InitServer /\ InitLife /\ InitArena /\ InitRun

\* the arena without the objects at the addresses of gone, which no bucket
\* chain reaches any more (the code leaves them in the arena, out of reach,
\* until it is cleared)
arena_unreachable(st, gone) ==
    [st EXCEPT !.arena = [a \in (DOMAIN st.arena) \ gone |-> st.arena[a]]]

Put(k, v) ==
    /\ \E r \in {kvstore_put_value(store, k.data, k.len, v)} :
       /\ store' = r.store
       /\ ret' = Call("put", k, v, r.err, NoValue,
                      k.data \in ValidKeys /\ shadow[k.data] # NoValue)
       /\ shadow' = IF r.err = KVSTORE_OK THEN [shadow EXCEPT ![k.data] = v] ELSE shadow
    /\ UNCHANGED <<little_endian, nonEngine>>

Get(k) ==
    /\ \E r \in {kvstore_get_value(store, k.data, k.len)} :
       ret' = Call("get", k, NoValue, r.err,
                   IF r.err = KVSTORE_OK THEN store.arena[r.value].value ELSE NoValue, FALSE)
    /\ UNCHANGED <<store, little_endian, shadow, nonEngine>>

\* the address of the entry of key k, which a successful delete unlinks
EntryOf(k) == find_entry(store, k.data, k.len, hash_key(k.data, k.len))

Delete(k) ==
    /\ \E r \in {kvstore_delete_key(store, k.data, k.len)} :
       /\ store' = IF r.err = KVSTORE_OK THEN arena_unreachable(r.store, {EntryOf(k)})
                   ELSE r.store
       /\ ret' = Call("delete", k, NoValue, r.err, NoValue, FALSE)
       /\ shadow' = IF r.err = KVSTORE_OK THEN [shadow EXCEPT ![k.data] = NoValue] ELSE shadow
    /\ UNCHANGED <<little_endian, nonEngine>>

Exists(k) ==
    /\ ret' = Call("exists", k, NoValue, KVSTORE_OK, NoValue,
                   kvstore_exists_key(store, k.data, k.len))
    /\ UNCHANGED <<store, little_endian, shadow, nonEngine>>

ApiDelete(k, deleted) ==
    /\ \E r \in {kvapi_delete(store, k.data, deleted)} :
       /\ store' = IF r.err = KVSTORE_OK THEN arena_unreachable(r.store, {EntryOf(k)})
                   ELSE r.store
       /\ ret' = Call("kvapi_delete", k, NoValue, r.err, NoValue, r.deleted)
       /\ shadow' = IF r.err = KVSTORE_OK THEN [shadow EXCEPT ![k.data] = NoValue] ELSE shadow
    /\ UNCHANGED <<little_endian, nonEngine>>

ApiExists(k) ==
    /\ ret' = Call("kvapi_exists", k, NoValue, KVSTORE_OK, NoValue, kvapi_exists(store, k.data))
    /\ UNCHANGED <<store, little_endian, shadow, nonEngine>>

Clear ==
    /\ store' = kvstore_clear(store)
    /\ ret' = Call("clear", EmptyKey, NoValue, KVSTORE_OK, NoValue, FALSE)
    /\ shadow' = NoShadow
    /\ UNCHANGED <<little_endian, nonEngine>>

Size ==
    /\ ret' = Call("size", EmptyKey, NoValue, KVSTORE_OK,
                   kvstore_value_create_int64(<<kvstore_size(store)>>), FALSE)
    /\ UNCHANGED <<store, little_endian, shadow, nonEngine>>

GetTyped(k, type) ==
    /\ \E r \in {kvstore_get_typed(store, k.data, type)} :
       ret' = Call("get_typed", k, [NoValue EXCEPT !.type = type], r.err, r.value, FALSE)
    /\ UNCHANGED <<store, little_endian, shadow, nonEngine>>

ApiGetTyped(k, type) ==
    /\ type # KVSTORE_TYPE_BINARY
    /\ \E r \in {kvapi_get_typed(store, k.data, type)} :
       ret' = Call("kvapi_get_typed", k, [NoValue EXCEPT !.type = type], r.err, r.value, FALSE)
    /\ UNCHANGED <<store, little_endian, shadow, nonEngine>>

RECURSIVE ApplyPuts(_, _)
ApplyPuts(map, puts) ==
    IF puts = <<>> THEN map
    ELSE ApplyPuts([map EXCEPT ![Head(puts).key] = Head(puts).value], Tail(puts))

Load(snapshot) ==
    /\ \E r \in {kvstore_load(little_endian, store, snapshot.bytes)} :
       /\ store' = r.store
       /\ ret' = Call("load", EmptyKey, NoValue, r.err, NoValue, FALSE)
    /\ shadow' = ApplyPuts(IF snapshot.cleared THEN NoShadow ELSE shadow, snapshot.puts)
    /\ UNCHANGED <<little_endian, nonEngine>>

Next ==
    \/ \E k \in KeyArgs : \E v \in ValuesOf(k.data) : Put(k, v)
    \/ \E k \in KeyArgs : Get(k)
    \/ \E k \in KeyArgs : Delete(k)
    \/ \E k \in KeyArgs : Exists(k)
    \/ \E k \in KeyArgs, deleted \in BOOLEAN : ApiDelete(k, deleted)
    \/ \E k \in KeyArgs : ApiExists(k)
    \/ \E k \in CStringArgs, type \in GetterTypes : GetTyped(k, type)
    \/ \E k \in CStringArgs, type \in GetterTypes : ApiGetTyped(k, type)
    \/ Clear
    \/ Size
    \/ \E snapshot \in Snapshots : Load(snapshot)

Spec == Init /\ [][Next]_vars

\* ------------------------------------------------- save, clear and load

\* what kvstore_get_value hands out for key k of table st: the error and the
\* value behind the pointer
LookupIn(st, k) ==
    LET r == kvstore_get_value(st, k, Len(k))
    IN  [err |-> r.err,
         value |-> IF r.err = KVSTORE_OK THEN st.arena[r.value].value ELSE NoValue]

V_INT_BYTES == kvstore_value_create_int64(<<1, 2, 3, 4, 5, 6, 7, 8>>)
V_EMPTY == StringValue(KVSTORE_TYPE_STRING, <<>>)

PersistValuesOf(k) ==
    IF k = <<97>> THEN {kvstore_value_create_null, V_BOOL, V_DOUBLE, V_BINARY}
    ELSE {V_INT_BYTES, V_EMPTY, V_EXACT}

PPut(k, v) ==
    /\ \E r \in {kvstore_put_value(store, k, Len(k), v)} :
       /\ store' = r.store
       /\ ret' = Call("put", KeyArg(k), v, r.err, NoValue, FALSE)
       /\ shadow' = IF r.err = KVSTORE_OK THEN [shadow EXCEPT ![k] = v] ELSE shadow
    /\ round_trip' = "none"
    /\ UNCHANGED <<little_endian, disk, saved, nonPersist>>

PDelete(k) ==
    /\ \E r \in {kvstore_delete_key(store, k, Len(k))} :
       /\ store' = IF r.err = KVSTORE_OK THEN arena_unreachable(r.store, {EntryOf(KeyArg(k))})
                   ELSE r.store
       /\ ret' = Call("delete", KeyArg(k), NoValue, r.err, NoValue, FALSE)
       /\ shadow' = IF r.err = KVSTORE_OK THEN [shadow EXCEPT ![k] = NoValue] ELSE shadow
    /\ round_trip' = "none"
    /\ UNCHANGED <<little_endian, disk, saved, nonPersist>>

\* kvstore_save to the file, every write succeeding
PSave ==
    /\ disk' = kvstore_save(little_endian, store)
    /\ saved' = [k \in ValidKeys |-> LookupIn(store, k)]
    /\ ret' = Call("save", EmptyKey, NoValue, KVSTORE_OK, NoValue, FALSE)
    /\ round_trip' = "saved"
    /\ UNCHANGED <<store, little_endian, shadow, nonPersist>>

PClear ==
    /\ store' = kvstore_clear(store)
    /\ ret' = Call("clear", EmptyKey, NoValue, KVSTORE_OK, NoValue, FALSE)
    /\ shadow' = NoShadow
    /\ round_trip' = IF round_trip = "saved" THEN "cleared" ELSE "none"
    /\ UNCHANGED <<little_endian, disk, saved, nonPersist>>

\* kvstore_load of the file
PLoad ==
    /\ \E r \in {kvstore_load(little_endian, store, disk)} :
       /\ store' = r.store
       /\ ret' = Call("load", EmptyKey, NoValue, r.err, NoValue, FALSE)
    /\ shadow' = IF disk = NoFile THEN shadow ELSE [k \in ValidKeys |-> saved[k].value]
    /\ round_trip' = IF round_trip = "cleared" THEN "loaded" ELSE "none"
    /\ UNCHANGED <<little_endian, disk, saved, nonPersist>>

InitPersistRun ==
    /\ InitEngine /\ little_endian \in BOOLEAN /\ InitPersist /\ InitApi /\ InitServer
    /\ InitLife /\ InitArena /\ InitRun

NextPersist ==
    \/ \E k \in TestKeys : \E v \in PersistValuesOf(k) : PPut(k, v)
    \/ \E k \in TestKeys : PDelete(k)
    \/ PSave
    \/ PClear
    \/ PLoad

SpecPersist == InitPersistRun /\ [][NextPersist]_vars

\* ----------------------------------------------- two threads on one handle

\* How many entries the arena may hold, the unlinked ones of deleted keys
\* included, before a call that would allocate one more waits for a clear.
MaxArena == 3

\* What a read through a pointer can find where the table keeps no value of
\* the type read: bytes that are no payload of the program (WildBytes), or
\* no bytes at all, the read faulting (Fault).
WildBytes == <<-2>>
Fault == <<-3>>
GarbageValue == [type |-> -2, len |-> 0, data |-> WildBytes]

\* the snapshot file kvapi_load reads: "a" an int64, "q" a string
ApiFile == FileHeader(2) \o FileEntryA_Int \o FileEntryQ_Str
ApiFilePuts == <<[key |-> <<97>>, value |-> V_INT], [key |-> <<113>>, value |-> V_STRING]>>

\* the calls of the two threads: thread 1 reads, thread 2 writes.
\* kvapi_set_string, kvapi_set_int64 and kvapi_set_double are "kvapi_set"
\* with the value they build.
ApiGets == {[op |-> "kvapi_get", key |-> k, arg |-> NoValue] : k \in TestKeys}
ApiCalls(t) ==
    IF t = 1 THEN ApiGets
    ELSE {[op |-> "kvapi_set", key |-> <<97>>, arg |-> v] : v \in {V_INT, V_DOUBLE, V_STRING}}
         \cup {[op |-> "kvapi_delete", key |-> <<97>>, arg |-> NoValue],
               [op |-> "kvapi_clear", key |-> NullPtr, arg |-> NoValue],
               [op |-> "kvapi_load", key |-> NullPtr, arg |-> NoValue]}

\* the thread record of a call that has returned
Returned(th, err, value, flag) ==
    [IdleThread EXCEPT !.op = th.op, !.key = th.key, !.err = err, !.value = value,
                       !.flag = flag, !.during = th.during]

\* LOCK_API of a call: the thread takes the mutex when no thread holds it
LockApi(t, call) ==
    /\ thread[t].pc = "idle"
    /\ mutex = NoThread
    /\ mutex' = t
    /\ thread' = [thread EXCEPT ![t] = [IdleThread EXCEPT !.pc = "locked", !.op = call.op,
                                                          !.key = call.key, !.arg = call.arg]]

\* a thread calls the facade
ApiEnter(t, call) ==
    /\ call.op = "kvapi_set" => Cardinality(DOMAIN store.arena) < MaxArena
    /\ LockApi(t, call)
    /\ UNCHANGED <<engineVars, nonApi>>

\* the engine call between LOCK_API and UNLOCK_API: the error and the table
\* after it, and deleted is the *deleted of kvapi_delete and the bool that
\* kvapi_exists returns
api_locked(st, le, th) ==
    IF th.op = "kvapi_set"
    THEN [deleted |-> FALSE] @@ kvstore_put_value(st, th.key, Len(th.key), th.arg)
    ELSE IF th.op = "kvapi_delete" THEN kvapi_delete(st, th.key, FALSE)
    ELSE IF th.op = "kvapi_exists"
         THEN [err |-> KVSTORE_OK, store |-> st, deleted |-> kvapi_exists(st, th.key)]
    ELSE IF th.op = "kvapi_clear"
         THEN [err |-> KVSTORE_OK, store |-> kvstore_clear(st), deleted |-> FALSE]
    ELSE IF th.op = "kvapi_load" THEN [deleted |-> FALSE] @@ kvstore_load(le, st, ApiFile)
    ELSE [err |-> kvstore_get_value(st, th.key, Len(th.key)).err, store |-> st,
          deleted |-> FALSE]

\* whether the locked call runs arena_clear, after which the memory of the
\* entries is no longer theirs
api_clears(le, th) ==
    th.op = "kvapi_clear" \/ (th.op = "kvapi_load" /\ load_header(le, ApiFile) = KVSTORE_OK)

\* The call under the lock, and UNLOCK_API. kvapi_get leaves the lock with
\* val, the pointer kvstore_get_value handed out; each other call returns.
\* Of a thread that holds such a pointer, during collects the values its key
\* has held since its lookup, and stale keeps the bytes its pointer refers
\* to when arena_clear gives them up.
ApiLocked(t) ==
    /\ thread[t].pc = "locked"
    /\ \E r \in {api_locked(store, little_endian, thread[t])} :
       \E g \in {kvstore_get_value(store, thread[t].key, Len(thread[t].key))} :
       /\ store' = r.store
       /\ shadow' =
            IF r.err # KVSTORE_OK THEN shadow
            ELSE IF thread[t].op = "kvapi_set"
                 THEN [shadow EXCEPT ![thread[t].key] = thread[t].arg]
            ELSE IF thread[t].op = "kvapi_delete"
                 THEN [shadow EXCEPT ![thread[t].key] = NoValue]
            ELSE IF thread[t].op = "kvapi_clear" THEN NoShadow
            ELSE IF thread[t].op = "kvapi_load" THEN ApplyPuts(NoShadow, ApiFilePuts)
            ELSE shadow
       /\ thread' =
            [u \in Threads |->
                IF u = t
                THEN IF thread[t].op = "kvapi_get" /\ g.err = KVSTORE_OK
                     THEN [thread[t] EXCEPT !.pc = "read_type", !.val = g.value,
                                            !.during = {store.arena[g.value].value}]
                     ELSE Returned(thread[t], r.err, NoValue, r.deleted)
                ELSE IF thread[u].pc \in {"read_type", "read_payload"}
                     THEN [thread[u] EXCEPT
                            !.during = @ \cup
                                (IF LookupIn(r.store, thread[u].key).err = KVSTORE_OK
                                 THEN {LookupIn(r.store, thread[u].key).value} ELSE {}),
                            !.cleared = @ \/ api_clears(little_endian, thread[t]),
                            !.stale = IF api_clears(little_endian, thread[t])
                                         /\ thread[u].val \in DOMAIN store.arena
                                      THEN store.arena[thread[u].val].value ELSE @]
                     ELSE thread[u]]
    /\ mutex' = NoThread
    /\ UNCHANGED <<little_endian, ret, nonApi>>

\* *val as thread t finds it: the value field of the entry val points to;
\* after an arena_clear the bytes as they were left, until a later entry is
\* allocated over them, which starts at the same address when it is the
\* first of the arena and need not otherwise.
val_deref(t) ==
    IF ~thread[t].cleared THEN {store.arena[thread[t].val].value}
    ELSE IF thread[t].val \notin DOMAIN store.arena THEN {thread[t].stale}
    ELSE IF thread[t].val = 1 THEN {store.arena[thread[t].val].value}
    ELSE {store.arena[thread[t].val].value, GarbageValue}

\* kvapi_get after UNLOCK_API: result->type = val->type and the switch on it
ApiReadType(t) ==
    /\ thread[t].pc = "read_type"
    /\ \E m \in val_deref(t) :
         thread' = [thread EXCEPT ![t] =
            IF m.type = KVSTORE_TYPE_NULL
            THEN Returned(thread[t], KVSTORE_OK, kvstore_value_create_null, FALSE)
            ELSE IF m.type \notin GetterTypes
                 THEN Returned(thread[t], KVSTORE_ERROR_INVALID_TYPE, NoValue, FALSE)
                 ELSE [thread[t] EXCEPT !.pc = "read_payload", !.type = m.type]]
    /\ UNCHANGED <<engineVars, nonApi, mutex>>

\* the cases of the switch: the results of copying the union of m, the
\* value at *val, as a payload of the type read before. A member other than
\* the one stored shares its bytes when both are 8-byte scalars; a pointer
\* member read from other bytes points nowhere.
kvapi_get_payload(type, m) ==
    IF type = m.type
    THEN {[err |-> KVSTORE_OK,
           value |-> IF type = KVSTORE_TYPE_STRING
                     THEN [m EXCEPT !.len = strlen(m.data), !.data = strdup(m.data)]
                     ELSE m]}
    ELSE IF type \in {KVSTORE_TYPE_INT64, KVSTORE_TYPE_DOUBLE}
            /\ m.type \in {KVSTORE_TYPE_INT64, KVSTORE_TYPE_DOUBLE}
         THEN {[err |-> KVSTORE_OK, value |-> [m EXCEPT !.type = type]]}
    ELSE IF type \in {KVSTORE_TYPE_STRING, KVSTORE_TYPE_BINARY}
         THEN {[err |-> KVSTORE_OK, value |-> [type |-> type, len |-> 0, data |-> b]] :
                  b \in {WildBytes, Fault}}
    ELSE {[err |-> KVSTORE_OK, value |-> [type |-> type, len |-> 0, data |-> WildBytes]]}

\* kvapi_get after UNLOCK_API: the copy of the payload into *result
ApiReadPayload(t) ==
    /\ thread[t].pc = "read_payload"
    /\ \E m \in val_deref(t) : \E r \in kvapi_get_payload(thread[t].type, m) :
         thread' = [thread EXCEPT ![t] = Returned(thread[t], r.err, r.value, FALSE)]
    /\ UNCHANGED <<engineVars, nonApi, mutex>>

NextApi ==
    \/ \E t \in Threads : \E call \in ApiCalls(t) : ApiEnter(t, call)
    \/ \E t \in Threads : ApiLocked(t)
    \/ \E t \in Threads : ApiReadType(t)
    \/ \E t \in Threads : ApiReadPayload(t)

SpecApi == Init /\ [][NextApi]_vars

\* ------------------------------------------------------- the server's loop
\* run_server's thread waits in epoll_wait and runs handle_new_connection,
\* handle_client_read and handle_client_write itself, one event after the
\* other. A command that calls the facade is a handler step up to LOCK_API,
\* the steps of the facade call, and a handler step that formats the reply.

\* client handlers run by the worker threads as well
HandlerThreads_workers == Threads

\* the threads that run client handlers: the thread of run_server alone.
\* worker_thread sleeps and calls cleanup_inactive_clients, no handler.
HandlerThreads == {1}

\* what clients send: whole command lines, two commands in one segment, a
\* line ending in CR LF with its command in lower case, and BUFFER_SIZE - 1
\* bytes with no newline. A client sends a segment once it has read the
\* replies to those before, but for the GETs of client 1, which it sends
\* with replies unread.
L_SET_X == <<83, 69, 84, 32, 97, 32, 120, 10>>
L_SET_YY == <<83, 69, 84, 32, 97, 32, 121, 121, 10>>
L_GET == <<71, 69, 84, 32, 97, 10>>
L_DEL == <<68, 69, 76, 32, 97, 10>>
L_EXISTS == <<69, 88, 73, 83, 84, 83, 32, 97, 10>>
L_KEYS == <<75, 69, 89, 83, 10>>
L_CLEAR == <<67, 76, 69, 65, 82, 10>>
L_GET_CRLF == <<103, 101, 116, 32, 97, 13, 10>>
L_NOP == <<78, 79, 80, 10>>
L_LONG == [i \in 1..(BUFFER_SIZE - 1) |-> 120]

SetInputs == {L_SET_X, L_SET_YY}
Pipelined(c) == IF c = 1 THEN {L_GET, L_GET \o L_GET} ELSE {}
Inputs(c) ==
    IF c = 1 THEN {L_SET_X, L_GET, L_GET \o L_GET, L_DEL, L_KEYS, L_LONG}
    ELSE {L_SET_YY, L_GET_CRLF, L_EXISTS, L_CLEAR, L_NOP}

\* handle_new_connection: accept, and create_client unless
\* active_connections has reached MAX_CLIENTS, when the socket is closed
HandleNewConnection(t, c) ==
    /\ handler[t].pc = "epoll_wait"
    /\ conn[c].state = "closed"
    /\ IF active_connections >= MAX_CLIENTS
       THEN UNCHANGED <<conn, active_connections>>
       ELSE /\ conn' = [conn EXCEPT ![c] = [create_client EXCEPT !.last_activity = now]]
            /\ active_connections' = fetch_add(active_connections)
    /\ sock' = NoWrite
    /\ UNCHANGED <<engineVars, persistVars, lifeVars, arenaVars, runVars, apiVars, handler, now, next_scan>>

\* handle_client_read, up to its loop over the lines: read appends what the
\* client sent, at most BUFFER_SIZE - read_len - 1 bytes
HandleClientRead(t, c, input) ==
    /\ handler[t].pc = "epoll_wait"
    /\ conn[c].state = "open"
    /\ Len(input) <= BUFFER_SIZE - Len(conn[c].read_buffer) - 1
    /\ input \in SetInputs => Cardinality(DOMAIN store.arena) < MaxArena
    /\ conn[c].write_buffer = <<>> \/ input \in Pipelined(c)
    /\ conn' = [conn EXCEPT ![c].read_buffer = @ \o input, ![c].last_activity = now]
    /\ handler' = [handler EXCEPT ![t] = [NoHandler EXCEPT !.pc = "lines", !.client = c]]
    /\ sock' = NoWrite
    /\ wire' = Received(wire, c, input)
    /\ UNCHANGED <<engineVars, persistVars, lifeVars, arenaVars, g_server, active_connections, apiVars,
                   now, next_scan>>

\* handle_client_read on a read of 0 bytes: the peer has closed, and
\* run_server removes and destroys the client
HandleClientClosed(t, c) ==
    /\ handler[t].pc = "epoll_wait"
    /\ conn[c].state = "open"
    /\ conn' = [conn EXCEPT ![c] = destroy_client(@)]
    /\ active_connections' = fetch_sub(active_connections)
    /\ sock' = NoWrite
    /\ UNCHANGED <<engineVars, persistVars, lifeVars, arenaVars, runVars, apiVars, handler, now, next_scan>>

RECURSIVE strchr(_, _, _)
\* strchr from byte i on: the index of the first byte ch before the
\* terminator, 0 when there is none
strchr(s, i, ch) ==
    IF i > Len(s) \/ s[i] = 0 THEN 0
    ELSE IF s[i] = ch THEN i
    ELSE strchr(s, i + 1, ch)

\* process_client_command and the cmd_* handler it calls, up to the call on
\* the facade: an error reply, the facade call to make, or cmd_keys
process_client_command(args) ==
    LET argc == Len(args)
        found == {i \in 1..Len(server_commands) : strcasecmp_eq(server_commands[i].name, args[1])}
        cmd == server_commands[CHOOSE i \in found : \A j \in found : i <= j]
        value == strcat_args(args, 3)
    IN  IF found = {} THEN [kind |-> "error", msg |-> server_errors.unknown_command]
        ELSE IF argc < cmd.min_args + 1 \/ (cmd.max_args > 0 /\ argc > cmd.max_args + 1)
             THEN [kind |-> "error", msg |-> server_errors.wrong_args]
        ELSE IF cmd.handler \in {"cmd_keys", "cmd_quit", "cmd_ping"} THEN [kind |-> cmd.handler]
        ELSE IF cmd.handler = "cmd_clear"
             THEN [kind |-> "call", call |-> [op |-> "kvapi_clear", key |-> NullPtr, arg |-> NoValue]]
        ELSE IF ~kv_validate_key(args[2]) THEN [kind |-> "error", msg |-> server_errors.invalid_key]
        ELSE IF cmd.handler = "cmd_set"
             THEN IF ~kv_validate_value_len(Len(value))
                  THEN [kind |-> "error", msg |-> server_errors.value_too_large]
                  ELSE [kind |-> "call",
                        call |-> [op |-> "kvapi_set", key |-> args[2],
                                  arg |-> StringValue(KVSTORE_TYPE_STRING, value)]]
        ELSE [kind |-> "call",
              call |-> [op |-> IF cmd.handler = "cmd_get" THEN "kvapi_get"
                               ELSE IF cmd.handler = "cmd_del" THEN "kvapi_delete"
                               ELSE "kvapi_exists",
                        key |-> args[2], arg |-> NoValue]]

\* cmd_ping: +PONG, or the argument as a bulk string
cmd_ping(client, args) ==
    IF Len(args) = 1 THEN send_response(client, <<43, 80, 79, 78, 71>> \o CRLF)
    ELSE send_bulk_string(client, args[2], strlen(args[2]))

\* one turn of the loop over the lines of read_buffer: the line up to the
\* next newline, less a CR before it, is parsed and its command run up to
\* its call on the facade; a command that is answered at once is run to its
\* end, and leaves the client in READING_COMMAND. The model takes the line
\* out of read_buffer here; the code moves the rest of the buffer down after
\* the last line.
ProcessLine(t) ==
    /\ handler[t].pc = "lines"
    /\ conn[handler[t].client].state = "open"
    /\ LET c == handler[t].client
           buf == conn[c].read_buffer
           line_end == strchr(buf, 1, 10)
           line == strdup(IF line_end > 1 /\ buf[line_end - 1] = 13
                          THEN SubSeq(buf, 1, line_end - 2)
                          ELSE SubSeq(buf, 1, line_end - 1))
           rest == [conn[c] EXCEPT !.read_buffer = SubSeq(buf, line_end + 1, Len(buf))]
           client == [rest EXCEPT !.state_e = "READING_COMMAND"]
           processing == [rest EXCEPT !.state_e = "PROCESSING"]
           args == parse_command(line)
       IN  /\ line_end # 0
           /\ IF strlen(line) = 0
              THEN /\ conn' = [conn EXCEPT ![c] = rest]
                   /\ UNCHANGED <<apiVars, handler>>
              ELSE IF Len(args) = 0
              THEN /\ conn' = [conn EXCEPT ![c] = send_error(client, server_errors.invalid_command)]
                   /\ UNCHANGED <<apiVars, handler>>
              ELSE \E d \in {process_client_command(args)} :
                     IF d.kind = "error"
                     THEN /\ conn' = [conn EXCEPT ![c] = send_error(client, d.msg)]
                          /\ handler' = [handler EXCEPT ![t].result = -1]
                          /\ UNCHANGED apiVars
                     ELSE IF d.kind = "cmd_ping"
                     THEN /\ conn' = [conn EXCEPT ![c] = cmd_ping(client, args)]
                          /\ handler' = [handler EXCEPT ![t].result = 0]
                          /\ UNCHANGED apiVars
                     ELSE IF d.kind \in {"cmd_keys", "cmd_quit"}
                     THEN /\ conn' = [conn EXCEPT ![c] = processing]
                          /\ handler' = [handler EXCEPT ![t].pc = d.kind]
                          /\ UNCHANGED apiVars
                     ELSE /\ LockApi(t, d.call)
                          /\ conn' = [conn EXCEPT ![c] = processing]
                          /\ handler' = [handler EXCEPT ![t].pc = "kvapi",
                                                        ![t].present = (d.call.key \in DOMAIN shadow
                                                                        /\ shadow[d.call.key] # NoValue)]
    /\ sock' = NoWrite
    /\ UNCHANGED <<engineVars, persistVars, lifeVars, arenaVars, runVars, active_connections, now, next_scan>>

\* the reply of cmd_set, cmd_get, cmd_del, cmd_exists and cmd_clear to what
\* the facade call returned
cmd_reply(client, th) ==
    IF th.op \in {"kvapi_set", "kvapi_clear"}
    THEN IF th.err # KVSTORE_OK THEN send_error(client, kvstore_error_string(th.err))
         ELSE send_response(client, RESP_OK)
    ELSE IF th.op = "kvapi_delete"
    THEN IF th.err \notin {KVSTORE_OK, KVSTORE_ERROR_KEY_NOT_FOUND}
         THEN send_error(client, kvstore_error_string(th.err))
         ELSE send_integer(client, IF th.flag THEN 1 ELSE 0)
    ELSE IF th.op = "kvapi_exists" THEN send_integer(client, IF th.flag THEN 1 ELSE 0)
    ELSE IF th.err = KVSTORE_ERROR_KEY_NOT_FOUND THEN send_response(client, RESP_NULL)
    ELSE IF th.err # KVSTORE_OK THEN send_error(client, kvstore_error_string(th.err))
    ELSE IF th.value.type = KVSTORE_TYPE_STRING
         THEN IF th.value.data = NullPtr THEN send_bulk_string(client, <<>>, 0)
              ELSE send_bulk_string(client, th.value.data, strlen(th.value.data))
    ELSE IF th.value.type = KVSTORE_TYPE_BOOL
         THEN IF th.value.data = <<0>> THEN send_bulk_string(client, <<102, 97, 108, 115, 101>>, 5)
              ELSE send_bulk_string(client, <<116, 114, 117, 101>>, 4)
    ELSE IF th.value.type = KVSTORE_TYPE_BINARY
         THEN send_bulk_string(client, th.value.data, th.value.len)
    ELSE send_response(client, RESP_NULL)

\* what cmd_set, cmd_get, cmd_del, cmd_exists and cmd_clear return after
\* that reply: -1 after an error of the facade, 0 after every other reply
cmd_status(th) ==
    IF th.op \in {"kvapi_set", "kvapi_clear"} THEN (IF th.err # KVSTORE_OK THEN -1 ELSE 0)
    ELSE IF th.op = "kvapi_delete"
    THEN (IF th.err \notin {KVSTORE_OK, KVSTORE_ERROR_KEY_NOT_FOUND} THEN -1 ELSE 0)
    ELSE IF th.op = "kvapi_exists" THEN 0
    ELSE IF th.err \notin {KVSTORE_OK, KVSTORE_ERROR_KEY_NOT_FOUND} THEN -1
    ELSE 0

\* the rest of a cmd_* handler once its facade call has returned, the
\* kvapi_free_result of cmd_get included. cmd_get formats an int64 or a
\* double with snprintf, which the model does not run: the server stores
\* strings alone, and no step answers such a value.
CmdReturn(t) ==
    /\ handler[t].pc = "kvapi"
    /\ thread[t].pc = "idle"
    /\ thread[t].value.type \notin {KVSTORE_TYPE_INT64, KVSTORE_TYPE_DOUBLE}
    /\ thread[t].value.data \notin {WildBytes, Fault}
    /\ conn' = [conn EXCEPT ![handler[t].client] =
                    IF @.state = "open"
                    THEN [cmd_reply(@, thread[t]) EXCEPT !.state_e = "READING_COMMAND"]
                    ELSE @]
    /\ handler' = [handler EXCEPT ![t].pc = "lines", ![t].result = cmd_status(thread[t])]
    /\ thread' = [thread EXCEPT ![t] = IdleThread]
    /\ sock' = NoWrite
    /\ UNCHANGED <<engineVars, persistVars, lifeVars, arenaVars, runVars, active_connections, mutex, now, next_scan>>

RECURSIVE cmd_keys_loop(_, _, _)
\* the while of cmd_keys: one bulk string per entry the iterator yields
cmd_keys_loop(client, st, iter) ==
    IF ~kvstore_iter_valid(st, iter) \/ client.state = "overrun" THEN client
    ELSE cmd_keys_loop(send_bulk_string(client, st.arena[iter.current_entry].key.data,
                                        st.arena[iter.current_entry].key.len),
                       st, kvstore_iter_next(st, iter))

\* cmd_keys: it reads the table through kvapi_store, and takes no mutex
cmd_keys(client, st) ==
    LET count == kvstore_size(st)
        h == send_response(client, <<42>> \o Decimal(count) \o CRLF)
    IN  IF count = 0 THEN h ELSE cmd_keys_loop(h, st, kvstore_iter_begin(st))

CmdKeys(t) ==
    /\ handler[t].pc = "cmd_keys"
    /\ conn' = [conn EXCEPT ![handler[t].client] =
                    IF @.state = "open"
                    THEN [cmd_keys(@, store) EXCEPT !.state_e = "READING_COMMAND"]
                    ELSE @]
    /\ handler' = [handler EXCEPT ![t].pc = "lines", ![t].result = 0]
    /\ sock' = NoWrite
    /\ UNCHANGED <<engineVars, persistVars, lifeVars, arenaVars, runVars, active_connections, apiVars, now, next_scan>>

\* cmd_quit: +OK, and the client is CLOSING
cmd_quit(client) == [send_response(client, RESP_OK) EXCEPT !.state_e = "CLOSING"]

CmdQuit(t) ==
    /\ handler[t].pc = "cmd_quit"
    /\ conn' = [conn EXCEPT ![handler[t].client] = IF @.state = "open" THEN cmd_quit(@) ELSE @]
    /\ handler' = [handler EXCEPT ![t].pc = "cmd_quit_done"]
    /\ sock' = NoWrite
    /\ UNCHANGED <<engineVars, persistVars, lifeVars, arenaVars, runVars, active_connections, apiVars, now, next_scan>>

\* handle_client_read once cmd_quit has returned: the args are freed and the
\* client is in READING_COMMAND, as after every command
CmdQuitReturn(t) ==
    /\ handler[t].pc = "cmd_quit_done"
    /\ conn' = [conn EXCEPT ![handler[t].client] =
                    IF @.state = "open" THEN [@ EXCEPT !.state_e = "READING_COMMAND"] ELSE @]
    /\ handler' = [handler EXCEPT ![t].pc = "lines", ![t].result = 0]
    /\ sock' = NoWrite
    /\ UNCHANGED <<engineVars, persistVars, lifeVars, arenaVars, runVars, active_connections, apiVars, now, next_scan>>

\* the end of handle_client_read: no newline is left in read_buffer. A
\* buffer full of a partial command is answered and the client destroyed,
\* else the next read finds nothing and the thread is back in epoll_wait. A
\* client whose write_buffer was overrun is followed no further. The next
\* read of a client that cleanup_inactive_clients has freed meanwhile reads
\* freed memory, and an fd that is closed: either it fails, and run_server
\* removes and destroys the client a second time, or nothing more is seen
\* of the client.
EndRead(t) ==
    /\ handler[t].pc = "lines"
    /\ LET c == handler[t].client
       IN  /\ conn[c].state = "open" => strchr(conn[c].read_buffer, 1, 10) = 0
           /\ IF conn[c].state = "open" /\ Len(conn[c].read_buffer) >= BUFFER_SIZE - 1
              THEN /\ conn' = [conn EXCEPT ![c] = destroy_client(send_error(@, server_errors.command_too_long))]
                   /\ active_connections' = fetch_sub(active_connections)
              ELSE IF conn[c].state = "freed"
              THEN \E again \in BOOLEAN :
                     /\ conn' = IF again THEN [conn EXCEPT ![c] = destroy_client(@)] ELSE conn
                     /\ active_connections' = IF again THEN fetch_sub(active_connections)
                                               ELSE active_connections
              ELSE UNCHANGED <<conn, active_connections>>
    /\ handler' = [handler EXCEPT ![t] = NoHandler]
    /\ sock' = NoWrite
    /\ UNCHANGED <<engineVars, persistVars, lifeVars, arenaVars, runVars, apiVars, now, next_scan>>

\* the bytes of write_buffer the socket has not taken yet
unwritten(client) == SubSeq(client.write_buffer, client.write_pos + 1, Len(client.write_buffer))

\* a write that moves write_pos and never empties the buffer
handle_client_write_on(client, written) ==
    [client EXCEPT !.write_pos = @ + written]

\* handle_client_write when the socket takes written bytes before write
\* returns EAGAIN: write_pos moves on, and when it has reached write_len
\* both are 0 again and the fd is registered for EPOLLIN alone
handle_client_write(client, written) ==
    IF client.write_pos + written >= Len(client.write_buffer)
    THEN [client EXCEPT !.write_pos = 0, !.write_buffer = <<>>, !.epollout = FALSE]
    ELSE [client EXCEPT !.write_pos = @ + written]

\* handle_client_write, which run_server calls on EPOLLOUT: the socket takes
\* the next written bytes of write_buffer, from write_pos on
HandleClientWrite(t, c, written) ==
    /\ handler[t].pc = "epoll_wait"
    /\ conn[c].state = "open"
    /\ conn[c].epollout
    /\ written \in 1..Len(unwritten(conn[c]))
    /\ sock' = [client |-> c, bytes |-> SubSeq(unwritten(conn[c]), 1, written)]
    /\ conn' = [conn EXCEPT ![c] = handle_client_write(@, written)]
    /\ wire' = Replied(wire, c, SubSeq(unwritten(conn[c]), 1, written))
    /\ UNCHANGED <<engineVars, persistVars, lifeVars, arenaVars, g_server, active_connections, apiVars,
                   handler, now, next_scan>>

\* a step of the facade call a handler has made
HandlerApi(t) ==
    /\ handler[t].pc = "kvapi"
    /\ ApiLocked(t) \/ ApiReadType(t) \/ ApiReadPayload(t)

NextServer ==
    \/ \E t \in HandlerThreads : \E c \in Clients : HandleNewConnection(t, c)
    \/ \E t \in HandlerThreads : \E c \in Clients : \E input \in Inputs(c) : HandleClientRead(t, c, input)
    \/ \E t \in HandlerThreads : \E c \in Clients : HandleClientClosed(t, c)
    \/ \E t \in HandlerThreads : ProcessLine(t)
    \/ \E t \in HandlerThreads : HandlerApi(t)
    \/ \E t \in HandlerThreads : CmdReturn(t)
    \/ \E t \in HandlerThreads : CmdKeys(t)
    \/ \E t \in HandlerThreads : EndRead(t)
    \/ \E t \in HandlerThreads : \E c \in Clients :
            HandleClientWrite(t, c, Len(unwritten(conn[c])))

SpecServer == Init /\ [][NextServer]_vars

\* ---------------------------------------------------------- the idle reaper

\* CLIENT_TIMEOUT, and the seconds worker_thread sleeps between two scans
CLIENT_TIMEOUT == 300
SCAN_SECONDS == 10

\* How far the clock of a run goes: past the first scan that finds a client
\* of the first seconds idle for more than CLIENT_TIMEOUT.
MaxClock == 312

\* The seconds that pass in one step of the clock.
TickSeconds == 1

\* "QUIT\n", and "SET a x\n" in two halves
L_QUIT == <<81, 85, 73, 84, 10>>
L_SET_HALF == <<83, 69, 84, 32, 97>>
L_SET_REST == <<32, 120, 10>>

\* what the one client of these runs sends: a QUIT, alone or with a SET
\* behind it, or the first half of a SET, and then its rest
ReaperInputs == {L_QUIT, L_QUIT \o L_SET_X, L_SET_HALF, L_SET_REST}
ReaperSends(client, input) == (input = L_SET_REST) = (client.read_buffer # <<>>)

\* a client whose client_t was freed while handle_client_read was using it:
\* every later access of the handler is to freed memory, and the client is
\* followed no further
FreedClient == [NoClient EXCEPT !.state = "freed"]

\* the test of cleanup_inactive_clients
inactive(client) ==
    now - client.last_activity > CLIENT_TIMEOUT \/ client.state_e = "CLOSING"

\* the clients a scan destroys, and the clients after the scan
Inactive == {c \in DOMAIN conn : conn[c].state = "open" /\ inactive(conn[c])}
cleanup_inactive_clients ==
    [c \in DOMAIN conn |->
        IF c \in Inactive
        THEN IF \E t \in Threads : handler[t].pc # "epoll_wait" /\ handler[t].client = c
             THEN FreedClient
             ELSE destroy_client(conn[c])
        ELSE conn[c]]

\* cleanup_inactive_clients, once the sleep of worker_thread has ended: every
\* client of the list that is idle for more than CLIENT_TIMEOUT or CLOSING is
\* unlinked and destroyed, whatever the loop of run_server is doing with it
CleanupInactiveClients ==
    /\ now >= next_scan
    /\ conn' = cleanup_inactive_clients
    /\ active_connections' = fetch_sub_times(active_connections, Cardinality(Inactive))
    /\ next_scan' = now + SCAN_SECONDS
    /\ sock' = NoWrite
    /\ UNCHANGED <<engineVars, persistVars, lifeVars, arenaVars, runVars, apiVars, handler, now>>

\* time passes, while worker_thread sleeps and the loop of run_server is in
\* epoll_wait: a handler is taken to return within the second it began in
Tick ==
    /\ now < next_scan
    /\ \A t \in Threads : handler[t].pc = "epoll_wait"
    /\ now + TickSeconds <= MaxClock
    /\ now' = now + TickSeconds
    /\ sock' = NoWrite
    /\ UNCHANGED <<engineVars, persistVars, lifeVars, arenaVars, runVars, active_connections, apiVars, conn, handler, next_scan>>

NextReaper ==
    \/ \E t \in HandlerThreads : HandleNewConnection(t, 1)
    \/ \E t \in HandlerThreads : \E input \in ReaperInputs :
            ReaperSends(conn[1], input) /\ HandleClientRead(t, 1, input)
    \/ \E t \in HandlerThreads : ProcessLine(t)
    \/ \E t \in HandlerThreads : HandlerApi(t)
    \/ \E t \in HandlerThreads : CmdReturn(t)
    \/ \E t \in HandlerThreads : CmdQuit(t)
    \/ \E t \in HandlerThreads : CmdQuitReturn(t)
    \/ \E t \in HandlerThreads : EndRead(t)
    \/ \E t \in HandlerThreads : HandleClientWrite(t, 1, Len(unwritten(conn[1])))
    \/ CleanupInactiveClients
    \/ Tick

SpecReaper == Init /\ [][NextReaper]_vars

\* ------------------------------------------------------ the limit of clients

\* the clients that try to connect: one more than the server takes
AcceptClients == 1..(MAX_CLIENTS + 1)

InitAccept ==
    /\ InitEngine /\ little_endian = TRUE /\ InitPersist /\ InitApi /\ InitLife /\ InitArena /\ InitRun
    /\ conn = [c \in AcceptClients |-> NoClient]
    /\ sock = NoWrite
    /\ now = 0
    /\ next_scan = 0
    /\ active_connections = 0
    /\ handler = [t \in Threads |-> NoHandler]

\* the first second of the server: clients connect, send QUIT and hang up,
\* and the first scan of worker_thread falls anywhere among the steps of
\* run_server
NextAccept ==
    \/ \E t \in HandlerThreads : \E c \in AcceptClients : HandleNewConnection(t, c)
    \/ \E t \in HandlerThreads : \E c \in AcceptClients : HandleClientRead(t, c, L_QUIT)
    \/ \E t \in HandlerThreads : \E c \in AcceptClients : HandleClientClosed(t, c)
    \/ \E t \in HandlerThreads : ProcessLine(t)
    \/ \E t \in HandlerThreads : CmdQuit(t)
    \/ \E t \in HandlerThreads : CmdQuitReturn(t)
    \/ \E t \in HandlerThreads : EndRead(t)
    \/ \E t \in HandlerThreads : \E c \in AcceptClients :
            HandleClientWrite(t, c, Len(unwritten(conn[c])))
    \/ CleanupInactiveClients

SpecAccept == InitAccept /\ [][NextAccept]_vars

\* ------------------------------------------------------ commands on the wire

\* "KEYS x\n", "CLEAR x\n", "QUIT x\n", "GET\n", "GET a b\n", "SET a\n",
\* "PING\n", "ping x\n", "PING x y\n", "SET a b c\n", "SET q \"\"\n",
\* "GET q\n"
W_KEYS_X == <<75, 69, 89, 83, 32, 120, 10>>
W_CLEAR_X == <<67, 76, 69, 65, 82, 32, 120, 10>>
W_QUIT_X == <<81, 85, 73, 84, 32, 120, 10>>
W_GET_NONE == <<71, 69, 84, 10>>
W_GET_TWO == <<71, 69, 84, 32, 97, 32, 98, 10>>
W_SET_ONE == <<83, 69, 84, 32, 97, 10>>
W_PING == <<80, 73, 78, 71, 10>>
W_PING_X == <<112, 105, 110, 103, 32, 120, 10>>
W_PING_TWO == <<80, 73, 78, 71, 32, 120, 32, 121, 10>>
W_SET_TOKENS == <<83, 69, 84, 32, 97, 32, 98, 32, 99, 10>>
W_SET_EMPTY == <<83, 69, 84, 32, 113, 32, 34, 34, 10>>
W_GET_Q == <<71, 69, 84, 32, 113, 10>>

WireSets == {L_SET_X, W_SET_TOKENS, W_SET_EMPTY}
WireInputs ==
    WireSets \cup
    {L_GET, L_GET_CRLF, L_KEYS, L_NOP, L_QUIT, W_KEYS_X, W_CLEAR_X, W_QUIT_X, W_GET_NONE,
     W_GET_TWO, W_SET_ONE, W_PING, W_PING_X, W_PING_TWO, W_GET_Q}

\* one client sends one line at a time, and the socket takes the replies
\* in one write or in several
NextWire ==
    \/ \E t \in HandlerThreads : HandleNewConnection(t, 1)
    \/ \E t \in HandlerThreads : \E input \in WireInputs :
            /\ input \in WireSets => Cardinality(DOMAIN store.arena) < MaxArena
            /\ HandleClientRead(t, 1, input)
    \/ \E t \in HandlerThreads : ProcessLine(t)
    \/ \E t \in HandlerThreads : HandlerApi(t)
    \/ \E t \in HandlerThreads : CmdReturn(t)
    \/ \E t \in HandlerThreads : CmdKeys(t)
    \/ \E t \in HandlerThreads : CmdQuit(t)
    \/ \E t \in HandlerThreads : CmdQuitReturn(t)
    \/ \E t \in HandlerThreads : EndRead(t)
    \/ \E t \in HandlerThreads : \E written \in 1..BUFFER_SIZE : HandleClientWrite(t, 1, written)

SpecWire == Init /\ [][NextWire]_vars

\* ------------------- tables of any size, and an arena that is out of memory

\* the capacities handed to kvstore_create: 0 for the default, and the
\* numbers around KVSTORE_MIN_CAPACITY and its double
CapacityHints ==
    {0, 1, KVSTORE_MIN_CAPACITY - 1, KVSTORE_MIN_CAPACITY, KVSTORE_MIN_CAPACITY + 1,
     2 * KVSTORE_MIN_CAPACITY - 1, 2 * KVSTORE_MIN_CAPACITY, 2 * KVSTORE_MIN_CAPACITY + 1}

\* kvstore_destroy of the table and kvstore_create of another
Create(capacity) ==
    /\ store' = kvstore_create(capacity)
    /\ ret' = Call("create", EmptyKey, kvstore_value_create_int64(<<capacity>>), KVSTORE_OK,
                   NoValue, FALSE)
    /\ shadow' = NoShadow
    /\ UNCHANGED <<little_endian, nonEngine>>

\* the string and binary values put while malloc fails
PayloadValues == {V_STRING, V_BINARY, V_EMPTY}

\* kvstore_put_value of a string or binary value while malloc fails
PutAllocFails(k, v) ==
    /\ \E r \in {kvstore_put_value_nomem(store, k.data, k.len, v)} :
       /\ store' = r.store
       /\ ret' = Call("put_nomem", k, v, r.err, NoValue, shadow[k.data] # NoValue)
       /\ shadow' = IF r.err = KVSTORE_OK THEN [shadow EXCEPT ![k.data] = v] ELSE shadow
    /\ UNCHANGED <<little_endian, nonEngine>>

NextCreate ==
    \/ \E capacity \in CapacityHints : Create(capacity)
    \/ \E k \in TestKeys : Put(KeyArg(k), V_BOOL)
    \/ \E k \in TestKeys : \E v \in PayloadValues : PutAllocFails(KeyArg(k), v)
    \/ \E k \in TestKeys : Delete(KeyArg(k))
    \/ Clear
    \/ \E snapshot \in Snapshots : Load(snapshot)

SpecCreate == Init /\ [][NextCreate]_vars

\* ------------------------------------------------ the life of the handle

\* what the keys hold in a table, NoValue for a key that is not in it
Holds(st) ==
    [k \in ValidKeys |-> IF LookupIn(st, k).err = KVSTORE_OK THEN LookupIn(st, k).value
                          ELSE NoValue]

\* the table after kvstore_destroy: its buckets and its arena are freed
NoStore == [buckets |-> <<>>, bucket_count |-> 0, entry_count |-> 0, arena |-> <<>>]

\* kvapi_init with the config of the program: a table of config.capacity
\* buckets and the kvstore_load of db_file into it. handle is NULL when the
\* load returned an error other than KVSTORE_ERROR_IO, and file is db_file
\* after the kvapi_destroy of that case, which saves when auto_save is on
kvapi_init(le, auto_save, file) ==
    LET r == kvstore_load(le, kvstore_create(KVSTORE_MIN_CAPACITY), file)
    IN  IF r.err # KVSTORE_OK /\ r.err # KVSTORE_ERROR_IO
        THEN [handle |-> NULL, err |-> r.err, store |-> NoStore,
              file |-> IF auto_save THEN kvstore_save(le, r.store) ELSE file]
        ELSE [handle |-> 1, err |-> r.err, store |-> r.store, file |-> file]

\* the program starts: kvapi_init
KvapiInit ==
    /\ ~handle.initialized
    /\ \E r \in {kvapi_init(little_endian, g_config.auto_save, disk)} :
       /\ handle' = [initialized |-> r.handle # NULL, auto_save |-> g_config.auto_save]
       /\ store' = r.store
       /\ disk' = r.file
       /\ shadow' = IF r.handle # NULL THEN Holds(r.store) ELSE NoShadow
       /\ ret' = Call("kvapi_init", EmptyKey, NoValue, r.err, NoValue, r.handle # NULL)
    /\ round_trip' = "none"
    /\ UNCHANGED <<little_endian, saved, apiVars, serverVars, g_config, arenaVars, runVars>>

\* while no program runs, the db file is replaced by another one
ReplaceFile(snapshot) ==
    /\ ~handle.initialized
    /\ disk' = snapshot.bytes
    /\ UNCHANGED <<engineVars, saved, round_trip, apiVars, serverVars, lifeVars, arenaVars, runVars>>

\* auto_save of the config file before the program starts, and "config set
\* auto_save" of the CLI while it runs: the config of the program changes,
\* the copy in the handle does not
SetAutoSave(value) ==
    /\ g_config' = [g_config EXCEPT !.auto_save = value]
    /\ UNCHANGED <<engineVars, persistVars, apiVars, serverVars, handle, arenaVars, runVars>>

\* kv_cleanup, the teardown of the program: its own save of a table that is
\* not empty when the config of the program has auto_save, then
\* kvapi_destroy, which saves when the config of the handle has auto_save,
\* and then destroys the table. Every write of a save succeeds.
kv_cleanup ==
    /\ handle.initialized
    /\ LET own == g_config.auto_save /\ kvstore_size(store) > 0
           file == kvstore_save(little_endian, store)
       IN  /\ disk' = IF own \/ handle.auto_save THEN file ELSE disk
           /\ saved' = IF own \/ handle.auto_save THEN [k \in ValidKeys |-> LookupIn(store, k)]
                       ELSE saved
    /\ store' = NoStore
    /\ shadow' = NoShadow
    /\ handle' = [handle EXCEPT !.initialized = FALSE]
    /\ ret' = Call("kv_cleanup", EmptyKey, NoValue, KVSTORE_OK, NoValue, FALSE)
    /\ round_trip' = "none"

\* the program ends
KvCleanup ==
    /\ kv_cleanup
    /\ UNCHANGED <<little_endian, apiVars, serverVars, g_config, arenaVars, runVars>>

\* the values the program puts between kvapi_init and kv_cleanup
LifeValuesOf(k) == IF k = <<97>> THEN {V_BOOL, V_BINARY} ELSE {V_EMPTY}

NextLife ==
    \/ KvapiInit
    \/ \E snapshot \in Snapshots : ReplaceFile(snapshot)
    \/ \E value \in BOOLEAN : SetAutoSave(value)
    \/ \E k \in TestKeys : \E v \in LifeValuesOf(k) : handle.initialized /\ PPut(k, v)
    \/ \E k \in TestKeys : handle.initialized /\ PDelete(k)
    \/ KvCleanup

SpecLife == Init /\ [][NextLife]_vars

\* ------------------------------------------------------------ properties

Lookup(k) == LookupIn(store, k)

Present == {k \in ValidKeys : shadow[k] # NoValue}

\* C1: the table is a map: for every key, kvstore_get_value returns the
\* variant and the payload of the latest successful put of the key, and
\* KeyNotFound when there is none or the key was deleted or cleared since.
C1_MapSemantics ==
    \A k \in ValidKeys :
        IF k \in Present
        THEN Lookup(k) = [err |-> KVSTORE_OK, value |-> shadow[k]]
        ELSE Lookup(k) = [err |-> KVSTORE_ERROR_KEY_NOT_FOUND, value |-> NoValue]

\* C2: kvstore_size is the number of keys whose latest operation is a
\* successful put; an update of a present key leaves it as it is and a
\* delete of a present key takes exactly one off.
C2_SizeCounts ==
    /\ [](kvstore_size(store) = Cardinality(Present))
    /\ [][/\ (ret'.op = "put" /\ ret'.err = KVSTORE_OK /\ ret'.flag)
              => kvstore_size(store') = kvstore_size(store)
          /\ (ret'.op \in {"delete", "kvapi_delete"} /\ ret'.err = KVSTORE_OK)
              => kvstore_size(store') = kvstore_size(store) - 1]_vars

\* an update of a present key and a delete of a present key have happened,
\* in a table that has grown
C2_Witness_Update ==
    /\ ret.op = "put" /\ ret.err = KVSTORE_OK /\ ret.flag
    /\ store.bucket_count > KVSTORE_MIN_CAPACITY
    /\ kvstore_size(store) > NumFillers

\* the keys a caller can name that are not in the table: the test keys not
\* present, the empty key and the key over the limit
AbsentKeys == (TestKeys \ Present) \cup {EmptyKey.data, OversizeKey.data}

\* C3: for a key that is not in the table, delete reports that nothing was
\* removed (an error, KeyNotFound for a well-formed key, and deleted ==
\* false), exists is false, and the table is as it was.
C3_AbsentKey ==
    \A k \in AbsentKeys :
        /\ kvstore_delete_key(store, k, Len(k)).err # KVSTORE_OK
        /\ k \in TestKeys
            => kvstore_delete_key(store, k, Len(k)).err = KVSTORE_ERROR_KEY_NOT_FOUND
        /\ kvstore_delete_key(store, k, Len(k)).store = store
        /\ \A d \in BOOLEAN :
               /\ kvapi_delete(store, k, d).deleted = FALSE
               /\ kvapi_delete(store, k, d).err = kvstore_delete_key(store, k, Len(k)).err
               /\ kvapi_delete(store, k, d).store = store
        /\ ~kvstore_exists_key(store, k, Len(k))
        /\ ~kvapi_exists(store, k)

\* kvapi_delete of an absent key has returned, with other keys in a table
\* that has grown
C3_Witness_Absent ==
    /\ ret.op = "kvapi_delete" /\ ret.key.data \in AbsentKeys
    /\ ret.err = KVSTORE_ERROR_KEY_NOT_FOUND /\ ~ret.flag
    /\ kvstore_size(store) > NumFillers
    /\ store.bucket_count > KVSTORE_MIN_CAPACITY

OversizeValue(v) ==
    v.type \in {KVSTORE_TYPE_STRING, KVSTORE_TYPE_BINARY} /\ v.len > KVSTORE_MAX_STRING_SIZE

\* C5: put rejects a null or empty key with InvalidKey, and a key or a
\* string or binary value over the limit with StringTooLarge, the table
\* staying as it was; a value of exactly the limit is accepted and stored.
C5_PutRejects ==
    /\ [](ret.op = "put" /\ ret.arg # NoValue =>
            /\ (ret.key.data = NullPtr \/ ret.key.len = 0)
                => ret.err = KVSTORE_ERROR_INVALID_KEY
            /\ (ret.key.data \in ValidKeys /\ OversizeValue(ret.arg)) \/ ret.key = OversizeKey
                => ret.err = KVSTORE_ERROR_STRING_TOO_LARGE
            /\ (ret.key.data \in ValidKeys /\ ret.arg = V_EXACT)
                => ret.err = KVSTORE_OK /\ Lookup(ret.key.data).value = V_EXACT)
    /\ [][(ret'.op = "put" /\ ret'.err # KVSTORE_OK) => store' = store]_vars

\* C6: a typed getter returns the stored payload exactly when the stored
\* variant of the key is the getter's type, TypeMismatch when the key holds
\* another variant and KeyNotFound when the key is absent, for the getters
\* of the engine and those of the facade alike, and leaves the table as it is.
C6_TypedGetters ==
    /\ [](\A k \in TestKeys, type \in GetterTypes :
            LET expected ==
                    IF Lookup(k).err # KVSTORE_OK THEN NotFound
                    ELSE IF Lookup(k).value.type # type
                         THEN [err |-> KVSTORE_ERROR_TYPE_MISMATCH, value |-> NoValue]
                         ELSE Lookup(k)
            IN  /\ kvstore_get_typed(store, k, type) = expected
                /\ type # KVSTORE_TYPE_BINARY => kvapi_get_typed(store, k, type) = expected)
    /\ [][ret'.op \in {"get_typed", "kvapi_get_typed"} => store' = store]_vars

\* C4: save, then clear, then load of the saved file succeeds and restores
\* exactly the saved keyspace: the same size, and for every key the variant
\* and the payload that kvstore_get_value returned before the save.
C4_RoundTrip ==
    round_trip = "loaded" =>
        /\ ret.op = "load" /\ ret.err = KVSTORE_OK
        /\ kvstore_size(store) = Cardinality({k \in ValidKeys : saved[k].err = KVSTORE_OK})
        /\ \A k \in ValidKeys : Lookup(k) = saved[k]

\* a round trip of a double and an int64 on a little-endian host is done
C4_Witness_RoundTrip ==
    /\ round_trip = "loaded" /\ little_endian
    /\ saved[<<97>>].value = V_DOUBLE
    /\ saved[<<113>>].value = V_INT_BYTES

\* a thread makes a step of its call in which it reads or writes the table
TableAccess(t) ==
    /\ thread[t].pc \in {"locked", "read_type", "read_payload"}
    /\ thread'[t].pc # thread[t].pc

\* what kvapi_get returns for a key that holds the value v throughout
CompleteResults(values) == UNION {kvapi_get_payload(v.type, v) : v \in values}

\* C7: a thread holds the mutex in every step of a facade call that reads or
\* writes the table, and a kvapi_get that races with kvapi_set_*,
\* kvapi_delete, kvapi_clear or kvapi_load of the other thread returns a
\* complete value that its key held during the call, or KeyNotFound when it
\* found none.
C7_LockedGet ==
    /\ [][\A t \in Threads : TableAccess(t) => mutex = t]_vars
    /\ [](\A t \in Threads :
            (thread[t].op = "kvapi_get" /\ thread[t].pc = "idle") =>
                IF thread[t].during = {}
                THEN thread[t].err = KVSTORE_ERROR_KEY_NOT_FOUND
                ELSE [err |-> thread[t].err, value |-> thread[t].value]
                        \in CompleteResults(thread[t].during))

\* a thread is inside its access to the engine: between LOCK_API and the
\* last read of a facade call, or in the iteration of cmd_keys
InEngine(t) ==
    \/ thread[t].pc \in {"locked", "read_type", "read_payload"}
    \/ handler[t].pc = "cmd_keys"

\* a cmd_get handler has the result of its kvapi_get in hand
GetInHand(t) ==
    handler[t].pc = "kvapi" /\ thread[t].op = "kvapi_get" /\ thread[t].pc = "idle"

\* C8: with two connections sending interleaved SET, GET, DEL commands on
\* the same key, at most one thread is inside a handler's access to the
\* engine, the table holds for every key what the commands that took effect
\* so far leave when applied one after the other in the order of their
\* effects, and the value a GET handler obtains is the value of the latest
\* SET of its key, whole, or none when the key is absent. (What reaches the
\* wire of that value is the matter of C10.)
C8_Serialized ==
    /\ Cardinality({t \in Threads : InEngine(t)}) <= 1
    /\ \A k \in TestKeys :
         IF shadow[k] # NoValue
         THEN Lookup(k) = [err |-> KVSTORE_OK, value |-> shadow[k]]
         ELSE Lookup(k).err = KVSTORE_ERROR_KEY_NOT_FOUND
    /\ \A t \in Threads :
         GetInHand(t) =>
            IF shadow[thread[t].key] # NoValue
            THEN thread[t].err = KVSTORE_OK /\ thread[t].value = shadow[thread[t].key]
            ELSE thread[t].err = KVSTORE_ERROR_KEY_NOT_FOUND

\* client 1 has set "a" to "x" and not read its +OK, client 2 has deleted
\* the key and set it to "yy", and the GET of client 1 has obtained "yy"
C8_Witness_Interleaved ==
    /\ conn[1].write_buffer = RESP_OK
    /\ Cardinality(DOMAIN store.arena) = 2
    /\ \E t \in Threads :
         /\ GetInHand(t) /\ handler[t].client = 1
         /\ thread[t].value = StringValue(KVSTORE_TYPE_STRING, <<121, 121>>)

\* a handler thread makes a step in which it reads or writes the table
ServerTableAccess(t) ==
    \/ TableAccess(t)
    \/ handler[t].pc = "cmd_keys" /\ handler'[t].pc # "cmd_keys"

\* C9: a thread holds the mutex of the facade in every step of a command
\* handler that reads or writes the table, the iteration of KEYS included.
C9_HandlersLocked == [][\A t \in Threads : ServerTableAccess(t) => mutex = t]_vars

\* the bulk string of a payload
BulkString(data) == <<36>> \o Decimal(Len(data)) \o CRLF \o data \o CRLF

\* the reply the keyspace calls for when the handler of thread t returns
ExpectedReply(t) ==
    LET k == thread[t].key
    IN  IF thread[t].op = "kvapi_set" THEN RESP_OK
        ELSE IF thread[t].op = "kvapi_get"
             THEN IF shadow[k] = NoValue THEN RESP_NULL ELSE BulkString(shadow[k].data)
        ELSE IF thread[t].op = "kvapi_delete"
             THEN IF handler[t].present THEN <<58, 49, 13, 10>> ELSE <<58, 48, 13, 10>>
        ELSE IF shadow[k] = NoValue THEN <<58, 48, 13, 10>> ELSE <<58, 49, 13, 10>>

\* C10: when the handler of SET, GET, DEL or EXISTS returns, it has added to
\* the write buffer of its client exactly +OK for SET, the bulk string of
\* the value last set for GET of a present key and $-1 of an absent one, :1
\* for DEL of a key that was present and :0 otherwise, and :0 for EXISTS of
\* an absent key.
C10_Replies ==
    [][\A t \in Threads :
         (/\ handler[t].pc = "kvapi" /\ handler'[t].pc = "lines"
          /\ thread[t].op \in {"kvapi_set", "kvapi_get", "kvapi_delete", "kvapi_exists"})
         => conn'[handler[t].client].write_buffer
              = conn[handler[t].client].write_buffer \o ExpectedReply(t)]_vars

\* s is t with bytes before it, or with bytes after it
IsSuffix(s, t) == Len(s) <= Len(t) /\ s = SubSeq(t, Len(t) - Len(s) + 1, Len(t))
IsPrefix(s, t) == Len(s) <= Len(t) /\ s = SubSeq(t, 1, Len(s))

\* the bytes taken from the front of read_buffer are one whole line
OneLine(taken) == taken # <<>> /\ strchr(taken, 1, 10) = Len(taken)

\* C11: at most one thread is in the commands of a connection; what the
\* connection receives is put behind the bytes that wait in its read buffer
\* and the line a command is made of is the first one there; a handler puts
\* its reply behind the replies that wait in the write buffer, and what the
\* socket takes is the front of those: so the replies reach the socket in
\* the order of the lines, none before or inside an earlier one.
C11_Ordered ==
    /\ [](\A c \in Clients :
            Cardinality({t \in Threads : handler[t].pc # "epoll_wait" /\ handler[t].client = c}) <= 1)
    /\ [][\A c \in Clients :
            (conn[c].state = "open" /\ conn'[c].state = "open") =>
                /\ conn'[c].read_buffer # conn[c].read_buffer =>
                     \/ IsPrefix(conn[c].read_buffer, conn'[c].read_buffer)
                     \/ /\ IsSuffix(conn'[c].read_buffer, conn[c].read_buffer)
                        /\ OneLine(SubSeq(conn[c].read_buffer, 1,
                                          Len(conn[c].read_buffer) - Len(conn'[c].read_buffer)))
                /\ unwritten(conn'[c]) # unwritten(conn[c]) =>
                     \/ /\ IsPrefix(unwritten(conn[c]), unwritten(conn'[c]))
                        /\ \E t \in Threads : handler[t].client = c /\ handler[t].pc # "epoll_wait"
                     \/ /\ sock'.client = c
                        /\ unwritten(conn[c]) = sock'.bytes \o unwritten(conn'[c])]_vars

\* the client has sent a SET and, without reading, a GET: both replies wait
\* in order, and the socket has taken the first two bytes of them
C11_Witness_TwoReplies ==
    /\ sock = [client |-> 1, bytes |-> <<43, 79>>]
    /\ conn[1].write_pos = 2
    /\ conn[1].write_buffer = RESP_OK \o BulkString(<<120>>)

\* the reply of an error: "-ERR " message "\r\n"
ErrorReply(error_msg) == <<45, 69, 82, 82, 32>> \o error_msg \o CRLF

\* the read buffer of the client is full and holds no line terminator
ReadBufferFull(client) ==
    /\ client.state = "open"
    /\ Len(client.read_buffer) >= BUFFER_SIZE - 1
    /\ strchr(client.read_buffer, 1, 10) = 0

\* C12: when the pending input of a connection fills the read buffer with no
\* line terminator in it, the socket takes the reply "-ERR Command too long"
\* before the connection is destroyed: the step that destroys the connection
\* writes the reply to its socket.
C12_TooLongReplied ==
    [][\A c \in Clients :
        (ReadBufferFull(conn[c]) /\ conn'[c].state = "closed") =>
            /\ sock'.client = c
            /\ IsSuffix(ErrorReply(server_errors.command_too_long), sock'.bytes)]_vars

\* the room send_response finds in the write buffer of the client
WriteRoom(client) == BUFFER_SIZE - Len(client.write_buffer) - 1

\* C15: when the reply of a command does not fit in the room left in the
\* write buffer of its connection, the command returns an error:
\* process_client_command does not return 0 for it.
C15_NoRoomIsError ==
    [][\A t \in Threads :
        (/\ handler[t].pc = "kvapi"
         /\ handler'[t].pc = "lines"
         /\ conn[handler[t].client].state = "open"
         /\ thread[t].op \in {"kvapi_set", "kvapi_get", "kvapi_delete", "kvapi_exists"}
         /\ Len(ExpectedReply(t)) > WriteRoom(conn[handler[t].client])) =>
            handler'[t].result # 0]_vars

\* C13: once cmd_quit has queued +OK the client is CLOSING and stays CLOSING
\* for as long as it exists, the next scan of the reaper destroys it, and no
\* line of a CLOSING client is made into a command.
C13_QuitCloses ==
    [][\A c \in Clients :
        conn[c].state = "open" /\ conn[c].state_e = "CLOSING" =>
            /\ IsSuffix(RESP_OK, conn[c].write_buffer)
            /\ conn'[c].state = "open" => conn'[c].state_e = "CLOSING"
            /\ next_scan' # next_scan => conn'[c].state # "open"
            /\ conn'[c].read_buffer # conn[c].read_buffer =>
                    IsPrefix(conn[c].read_buffer, conn'[c].read_buffer)]_vars

\* C14: no data is received on a connection that has been silent for more
\* than CLIENT_TIMEOUT seconds, the reaper has destroyed it by then: the rest
\* of a command whose first half lies in the read buffer for that long is
\* never read, and the command never executed.
C14_IdleReaped ==
    [][\A c \in Clients :
        (/\ conn[c].state = "open"
         /\ conn[c].read_buffer # <<>>
         /\ now - conn[c].last_activity > CLIENT_TIMEOUT) =>
            conn'[c].read_buffer = conn[c].read_buffer \/ conn'[c].state # "open"]_vars

\* the line handle_client_read takes next from the read buffer of the
\* client, and all its tokens
NextLine(client) ==
    LET buf == client.read_buffer
        line_end == strchr(buf, 1, 10)
    IN  strdup(IF line_end > 1 /\ buf[line_end - 1] = 13
               THEN SubSeq(buf, 1, line_end - 2)
               ELSE SubSeq(buf, 1, line_end - 1))
Tokens(client) == strtok(NextLine(client), 1, <<>>)

\* thread t is about to make a command of the next line of its client
TakesLine(t) ==
    /\ handler[t].pc = "lines"
    /\ conn[handler[t].client].state = "open"
    /\ strchr(conn[handler[t].client].read_buffer, 1, 10) # 0
    /\ Tokens(conn[handler[t].client]) # <<>>

\* the arity of the commands: how many arguments each takes
Arity(name) ==
    LET is(n) == strcasecmp_eq(name, n)
    IN  IF is(<<75, 69, 89, 83>>) \/ is(<<67, 76, 69, 65, 82>>) \/ is(<<81, 85, 73, 84>>)
        THEN {0}
        ELSE IF is(<<80, 73, 78, 71>>) THEN {0, 1}
        ELSE IF is(<<71, 69, 84>>) \/ is(<<68, 69, 76>>) \/ is(<<69, 88, 73, 83, 84, 83>>)
        THEN {1}
        ELSE IF is(<<83, 69, 84>>) THEN 2..BUFFER_SIZE
        ELSE {}

\* C16: a handler is called only for a command of the table, whatever the
\* case of its name, with a number of arguments within its arity (0 for
\* KEYS, CLEAR and QUIT; 0 or 1 for PING; 1 for GET, DEL, EXISTS; 2 or more
\* for SET). Every other line is answered -ERR Wrong number of arguments, or
\* -ERR Unknown command, no handler and no call on the engine is made for it.
C16_Dispatch ==
    [][\A t \in Threads :
        TakesLine(t) =>
            LET c == handler[t].client
                args == Tokens(conn[c])
            IN  Len(args) - 1 \notin Arity(args[1]) =>
                    /\ handler'[t].pc = "lines"
                    /\ handler'[t].result = -1
                    /\ UNCHANGED <<thread, store>>
                    /\ conn'[c].write_buffer \in
                           {conn[c].write_buffer \o ErrorReply(server_errors.wrong_args),
                            conn[c].write_buffer \o ErrorReply(server_errors.unknown_command)}]_vars

\* C17: SET key t1 ... tn with two value tokens or more hands to the engine,
\* for key, the tokens t1 ... tn joined by single spaces, all of them,
\* whenever that string is within the limit of a value.
C17_SetJoins ==
    [][\A t \in Threads :
        LET args == Tokens(conn[handler[t].client])
        IN  (/\ TakesLine(t)
             /\ Len(args) >= 4
             /\ strcasecmp_eq(args[1], <<83, 69, 84>>)
             /\ kv_validate_key(args[2])
             /\ kv_validate_value_len(Len(strcat_args(args, 3)))) =>
                /\ thread'[t].op = "kvapi_set"
                /\ thread'[t].key = args[2]
                /\ thread'[t].arg = StringValue(KVSTORE_TYPE_STRING, strcat_args(args, 3))]_vars

\* C18: after SET q "" the key q holds the empty string, and a GET of q is
\* answered the empty bulk string "$0\r\n\r\n". (In these runs no other
\* command sets q.)
C18_EmptyValue ==
    /\ [](shadow[<<113>>] # NoValue => shadow[<<113>>] = StringValue(KVSTORE_TYPE_STRING, <<>>))
    /\ [][\A t \in Threads :
            (/\ handler[t].pc = "kvapi"
             /\ handler'[t].pc = "lines"
             /\ thread[t].op = "kvapi_get"
             /\ thread[t].key = <<113>>
             /\ thread[t].err = KVSTORE_OK) =>
                conn'[handler[t].client].write_buffer =
                    conn[handler[t].client].write_buffer \o BulkString(<<>>)]_vars

\* no key is in the table
EngineEmpty(st) ==
    /\ kvstore_size(st) = 0
    /\ \A k \in ValidKeys : LookupIn(st, k).err = KVSTORE_ERROR_KEY_NOT_FOUND

\* the file begins with four bytes that are not the magic number
WrongMagic(file) ==
    /\ file # NoFile
    /\ read_ok(file, 0, 4)
    /\ read_u32(little_endian, file, 0) # MAGIC_NUMBER

\* C19: the load of a file whose magic number is wrong returns InvalidFormat
\* and leaves the table empty, whatever it held before.
C19_WrongMagicEmpties ==
    [][\A snapshot \in Snapshots :
        (WrongMagic(snapshot.bytes) /\ Load(snapshot)) =>
            /\ ret'.err = KVSTORE_ERROR_INVALID_FORMAT
            /\ EngineEmpty(store')]_vars

\* the file has a whole header with the magic number, and ends before the
\* entries its header counts have been read
EndsEarly(file) ==
    /\ load_header(little_endian, file) = KVSTORE_OK
    /\ kvstore_load(little_endian, store, file).err = KVSTORE_ERROR_IO

\* C20: the load of a file that ends before the entries its header counts
\* returns the IO error and leaves the table empty: no entry read before the
\* end of the file is in it.
C20_ShortFileEmpties ==
    [][\A snapshot \in Snapshots :
        (EndsEarly(snapshot.bytes) /\ Load(snapshot)) =>
            /\ ret'.err = KVSTORE_ERROR_IO
            /\ EngineEmpty(store')]_vars

\* C21: the load of a file that does not exist is no error of the engine:
\* kvstore_load returns KVSTORE_OK and the table is left as it was.
C21_MissingFileOk ==
    [][\A snapshot \in Snapshots :
        (snapshot.bytes = NoFile /\ Load(snapshot)) =>
            /\ ret'.err = KVSTORE_OK
            /\ store' = store]_vars

\* C22: kvapi_init returns a handle with an empty table when the db file is
\* missing, and no handle when the load of the file fails in any other way,
\* a file cut short in its entries included; the handle it returns never
\* holds a part of a file.
C22_InitLoads ==
    [][KvapiInit =>
        IF disk = NoFile THEN handle'.initialized /\ EngineEmpty(store')
        ELSE IF kvstore_load(little_endian, kvstore_create(KVSTORE_MIN_CAPACITY), disk).err
                    # KVSTORE_OK
        THEN ~handle'.initialized
        ELSE handle'.initialized]_vars

\* C23: teardown of a handle whose auto_save is on writes the snapshot of
\* the complete keyspace of that moment to the db file before the table is
\* released, and teardown of a handle whose auto_save is off writes no file.
C23_TeardownSaves ==
    [][KvCleanup =>
        IF handle.auto_save
        THEN disk' = kvstore_save(little_endian, store)
        ELSE disk' = disk]_vars

\* the clients that are connected: created, and not destroyed since
Live == {c \in DOMAIN conn : conn[c].state \notin {"closed", "freed"}}

\* C24: the server never has more than MAX_CLIENTS live connections, and a
\* connection accepted while MAX_CLIENTS or more are live is closed at
\* once: no client_t is made for it and the list of clients stays as it is.
C24_ClientLimit ==
    /\ [](Cardinality(Live) <= MAX_CLIENTS)
    /\ [][\A t \in HandlerThreads : \A c \in DOMAIN conn :
            (Cardinality(Live) >= MAX_CLIENTS /\ HandleNewConnection(t, c)) => conn' = conn]_vars

RECURSIVE ChainOf(_, _)
\* the addresses of the entries linked from entry on
ChainOf(st, entry) ==
    IF entry = NULL THEN {} ELSE {entry} \cup ChainOf(st, st.arena[entry].next)

\* C25: every entry linked in bucket i of the table has the FNV-1a hash of
\* its key in its hash field, and that hash modulo the bucket count is i,
\* after every insert, delete, clear, load and resize.
C25_BucketOfHash ==
    \A i \in DOMAIN store.buckets :
        \A e \in ChainOf(store, store.buckets[i]) :
            /\ store.arena[e].hash = hash_key(store.arena[e].key.data, store.arena[e].key.len)
            /\ U32Mod(store.arena[e].hash, store.bucket_count) = i

\* a table that was resized to twice KVSTORE_MIN_CAPACITY buckets, where the
\* two keys that shared a bucket of the old array are in two buckets
C25_Witness_Resized ==
    /\ store.bucket_count = 2 * KVSTORE_MIN_CAPACITY
    /\ EntryOf(KeyArg(<<97>>)) # NULL
    /\ EntryOf(KeyArg(<<113>>)) # NULL
    /\ U32Mod(hash_key(<<97>>, 1), store.bucket_count) # U32Mod(hash_key(<<113>>, 1), store.bucket_count)
    /\ U32Mod(hash_key(<<97>>, 1), KVSTORE_MIN_CAPACITY) = U32Mod(hash_key(<<113>>, 1), KVSTORE_MIN_CAPACITY)
    /\ store.entry_count > 2

RECURSIVE IsPowerOf2(_)
IsPowerOf2(n) == n = 1 \/ (n > 1 /\ n % 2 = 0 /\ IsPowerOf2(n \div 2))

\* C26: the table has a power of two of buckets, KVSTORE_MIN_CAPACITY at
\* least, whatever capacity kvstore_create was given and however often the
\* table was resized.
C26_PowerOfTwo ==
    /\ DOMAIN store.buckets = 0..(store.bucket_count - 1)
    /\ store.bucket_count >= KVSTORE_MIN_CAPACITY
    /\ IsPowerOf2(store.bucket_count)

\* a table just made for a capacity between two powers of two
C26_Witness_Rounded ==
    /\ ret.op = "create"
    /\ ret.arg = kvstore_value_create_int64(<<KVSTORE_MIN_CAPACITY + 1>>)
    /\ store.bucket_count = 2 * KVSTORE_MIN_CAPACITY

\* kvstore_put_value has just returned KVSTORE_OK
PutDone == ret.op = "put" /\ ret.err = KVSTORE_OK

\* C27: after a successful put the load factor, the entry count over the
\* bucket count, is below max_load_factor = LOAD_FACTOR_NUM / LOAD_FACTOR_DEN
\* and not equal to it.
C27_BelowMax ==
    PutDone => store.entry_count * LOAD_FACTOR_DEN < store.bucket_count * LOAD_FACTOR_NUM

\* C27, as the code has it: after a successful put the load factor is at
\* most max_load_factor. The table grows before an insert that finds the
\* load factor at max_load_factor or above, so the insert before that one
\* leaves it at max_load_factor exactly.
C27_AtMostMax ==
    PutDone => store.entry_count * LOAD_FACTOR_DEN <= store.bucket_count * LOAD_FACTOR_NUM

\* a put has just inserted the key that brings the load factor to
\* max_load_factor
C27_Witness_AtMax ==
    /\ PutDone
    /\ ~ret.flag
    /\ store.entry_count * LOAD_FACTOR_DEN = store.bucket_count * LOAD_FACTOR_NUM

\* the entries the bucket array reaches
Linked(st) == UNION {ChainOf(st, st.buckets[i]) : i \in DOMAIN st.buckets}

\* C28: no two entries reachable from the bucket array have the same key,
\* length and bytes, after inserts, updates, resizes and the load of a
\* snapshot file that holds a key twice.
C28_UniqueKeys ==
    \A e1, e2 \in Linked(store) :
        e1 # e2 => store.arena[e1].key # store.arena[e2].key

\* the load of the file that holds the key "a" twice has left one entry,
\* with the value of the second
C28_Witness_DuplicateLoaded ==
    /\ ret.op = "load"
    /\ ret.err = KVSTORE_OK
    /\ Linked(store) # {}
    /\ \A e \in Linked(store) :
            store.arena[e].key = KeyArg(<<97>>) /\ store.arena[e].value = V_BOOL

\* C29: a put of a string or binary value whose copy the arena cannot
\* allocate returns KVSTORE_ERROR_MEMORY and leaves the key as it was,
\* absent or with its value; and no put that returned KVSTORE_OK for a
\* string or binary value has stored a null value under the key.
C29_NoMemoryReported ==
    /\ [][\A k \in TestKeys : \A v \in PayloadValues :
            PutAllocFails(KeyArg(k), v) =>
                /\ ret'.err = KVSTORE_ERROR_MEMORY
                /\ LookupIn(store', k) = LookupIn(store, k)]_vars
    /\ [](\A k \in TestKeys :
            (ret.op \in {"put", "put_nomem"} /\ ret.err = KVSTORE_OK /\ ret.key = KeyArg(k)
                /\ ret.arg.type \in {KVSTORE_TYPE_STRING, KVSTORE_TYPE_BINARY})
            => Lookup(k).value.type # KVSTORE_TYPE_NULL)

\* C30: a client is destroyed once and not used after: cleanup_inactive_clients
\* frees no client for which run_server is inside a handler, and run_server
\* does not remove and destroy a client that cleanup_inactive_clients has
\* destroyed.
C30_DestroyedOnce ==
    /\ [](\A t \in Threads :
            handler[t].pc # "epoll_wait" => conn[handler[t].client].state # "freed")
    /\ [][\A t \in Threads :
            (handler[t].pc = "lines" /\ conn[handler[t].client].state = "freed")
                => active_connections' = active_connections]_vars

RECURSIVE ReadDecimal(_, _, _)
\* the number whose digits begin at byte i of buf, and the index after them
ReadDecimal(buf, i, acc) ==
    IF i <= Len(buf) /\ buf[i] \in 48..57
    THEN ReadDecimal(buf, i + 1, acc * 10 + (buf[i] - 48))
    ELSE [value |-> acc, next |-> i]

CrlfAt(buf, i) == i + 1 <= Len(buf) /\ buf[i] = 13 /\ buf[i + 1] = 10

RECURSIVE Replies(_, _, _)
\* buf from byte i on is a concatenation of complete RESP replies, the
\* first owed of them the bulk strings of an array whose header came before
Replies(buf, i, owed) ==
    IF i > Len(buf) THEN owed = 0
    ELSE IF i + 4 <= Len(buf) /\ SubSeq(buf, i, i + 4) = RESP_NULL THEN owed = 0 /\ Replies(buf, i + 5, 0)
    ELSE IF buf[i] = 36
    THEN LET n == ReadDecimal(buf, i + 1, 0)
         IN  /\ n.next > i + 1
             /\ CrlfAt(buf, n.next)
             /\ CrlfAt(buf, n.next + 2 + n.value)
             /\ Replies(buf, n.next + 2 + n.value + 2, IF owed > 0 THEN owed - 1 ELSE 0)
    ELSE IF owed # 0 THEN FALSE
    ELSE IF buf[i] = 42
    THEN LET n == ReadDecimal(buf, i + 1, 0)
         IN  n.next > i + 1 /\ CrlfAt(buf, n.next) /\ Replies(buf, n.next + 2, n.value)
    ELSE IF buf[i] \in {43, 45, 58}
    THEN LET ends == {j \in i..Len(buf) : CrlfAt(buf, j)}
         IN  ends # {} /\ Replies(buf, (CHOOSE j \in ends : \A k \in ends : j <= k) + 2, 0)
    ELSE FALSE

\* C31: the write buffer of a client holds complete RESP replies and
\* nothing else: after the header of a bulk string come as many bytes as
\* it says and CR LF, and after the header of an array as many bulk
\* strings as it says, also when the value of a GET or the keys of a KEYS
\* take more room than the buffer has left.
C31_CompleteReplies ==
    \A c \in DOMAIN conn :
        conn[c].state \in {"open", "overrun"} => Replies(conn[c].write_buffer, 1, 0)

\* C32: a kvapi_init that fails on the load of db_file leaves the file as it
\* was, with auto_save on as with auto_save off.
C32_FailedInitKeepsFile ==
    [][(KvapiInit /\ ~handle'.initialized) => disk' = disk]_vars

\* ------------------------------------------ the arena of a store in use

\* a put, or any other call that copies into the arena: arena_alloc(size)
ArenaAlloc(size, memory) ==
    /\ ~trail.destroyed
    /\ Len(trail.log) < MaxAllocs
    /\ LET r == arena_alloc_bytes(pool, heap, size, memory)
       IN  /\ Len(r.heap) <= MaxBlocks
           /\ pool' = r.arena
           /\ heap' = r.heap
           /\ trail' = IF r.ptr = NullRange THEN trail
                       ELSE [trail EXCEPT !.returned = Append(@, r.ptr),
                                          !.log = Append(@, size)]
    /\ UNCHANGED <<engineVars, persistVars, apiVars, serverVars, lifeVars, runVars>>

\* kvstore_clear: arena_clear
ArenaClear ==
    /\ ~trail.destroyed
    /\ LET r == arena_clear(pool, heap)
       IN  /\ pool' = r.arena
           /\ heap' = r.heap
    /\ trail' = [trail EXCEPT !.returned = <<>>, !.log = <<>>, !.cleared = TRUE,
                              !.prev_log = trail.log, !.prev_blocks = Len(heap)]
    /\ UNCHANGED <<engineVars, persistVars, apiVars, serverVars, lifeVars, runVars>>

\* kvstore_destroy: arena_destroy
ArenaDestroy ==
    /\ ~trail.destroyed
    /\ LET r == arena_destroy(pool, heap)
       IN  /\ pool' = r.arena
           /\ heap' = r.heap
    /\ trail' = [trail EXCEPT !.destroyed = TRUE]
    /\ UNCHANGED <<engineVars, persistVars, apiVars, serverVars, lifeVars, runVars>>

NextArena ==
    \/ \E size \in AllocSizes : \E memory \in BOOLEAN : ArenaAlloc(size, memory)
    \/ ArenaClear
    \/ ArenaDestroy

SpecArena == Init /\ [][NextArena]_vars

\* C33: when the allocations made before an arena_clear have all been made
\* again after it, the arena has as many blocks as it had at the clear: the
\* refill used the blocks that were there and asked malloc for none.
C33_RefillReusesBlocks ==
    (trail.cleared /\ ~trail.destroyed /\ trail.log = trail.prev_log)
        => Len(heap) = trail.prev_blocks

\* C34: after arena_destroy every block that malloc gave the arena has been
\* freed, and freed once.
C34_EveryBlockFreedOnce ==
    trail.destroyed => \A b \in DOMAIN heap : heap[b].freed = 1

\* the ranges i and j of trail.returned share a byte
Overlap(i, j) ==
    LET p == trail.returned[i]
        q == trail.returned[j]
    IN  p.block = q.block /\ p.offset < q.offset + q.len /\ q.offset < p.offset + p.len

\* C35: every range arena_alloc has returned since the latest arena_clear
\* starts at a multiple of 8 in its block, ends inside the block and shares
\* no byte with another of these ranges; no block has used above size.
C35_AlignedDisjointRanges ==
    /\ \A i \in DOMAIN trail.returned :
          LET p == trail.returned[i]
          IN  /\ p.block \in DOMAIN heap
              /\ p.len > 0
              /\ p.offset % ARENA_ALIGNMENT = 0
              /\ p.offset + p.len <= heap[p.block].size
              /\ \A j \in DOMAIN trail.returned : i # j => ~Overlap(i, j)
    /\ \A b \in DOMAIN heap : heap[b].used <= heap[b].size

\* after a clear, two ranges in one block, a range of a size that is not a
\* multiple of 8, and a range in a block made larger than ARENA_BLOCK_SIZE
C35_Witness_RefilledBlocks ==
    /\ trail.cleared
    /\ \E i, j, k \in DOMAIN trail.returned :
          /\ i # j
          /\ trail.returned[i].block = trail.returned[j].block
          /\ trail.returned[i].len % ARENA_ALIGNMENT # 0
          /\ heap[trail.returned[k].block].size > ARENA_BLOCK_SIZE - BlockHeader

\* C36: after a load that returns KVSTORE_OK the table holds the records of
\* the file and nothing else. Load leaves in shadow, per key, the value of
\* the last record the file has for it, and no value for a key the file does
\* not have, whatever the table held before: every key is found with that
\* value or not found, and the size is the number of keys of the file.
C36_LoadReplaces ==
    (ret.op = "load" /\ ret.err = KVSTORE_OK) =>
        /\ Holds(store) = shadow
        /\ kvstore_size(store) = Cardinality({k \in ValidKeys : shadow[k] # NoValue})

\* the file with two records of "a" has been loaded: "a" has the value of
\* the second record and "q" is not found
C36_Witness_LastRecordWins ==
    /\ ret.op = "load" /\ ret.err = KVSTORE_OK
    /\ kvstore_size(store) = 1
    /\ LookupIn(store, <<97>>).value = V_BOOL
    /\ LookupIn(store, <<113>>).err = KVSTORE_ERROR_KEY_NOT_FOUND

\* ------------------------------------------- a save of a table with chains

\* the keys deleted from a loaded table
DeletedKeys == {<<113>>, FillerKey(1)}

\* tables as loads, puts and deletes leave them, and the save of each
NextTraverse ==
    \/ \E snapshot \in Snapshots : Load(snapshot)
    \/ \E k \in TestKeys : PPut(k, V_BOOL)
    \/ \E k \in DeletedKeys : PDelete(k)
    \/ PSave

SpecTraverse == Init /\ [][NextTraverse]_vars

RECURSIVE Visits(_, _)
\* the entries a traversal hands out from iter on, in order: kvstore_iter_get
\* while kvstore_iter_valid, then kvstore_iter_next
Visits(st, iter) ==
    IF ~kvstore_iter_valid(st, iter) THEN <<>>
    ELSE <<iter.current_entry>> \o Visits(st, kvstore_iter_next(st, iter))

RECURSIVE Records(_, _, _)
\* the number of entry records in the file from offset pos on
Records(le, file, pos) ==
    IF ~read_ok(file, pos, 4) THEN 0
    ELSE LET key_len == U32Value(read_u32(le, file, pos))
             rv == read_value(le, file, pos + 4 + key_len)
         IN  IF rv.err # KVSTORE_OK THEN 0 ELSE 1 + Records(le, file, rv.pos)

\* C37: a traversal from kvstore_iter_begin with kvstore_iter_next, as long
\* as kvstore_iter_valid, hands out every entry linked in the table, each
\* once, and so kvstore_size entries; and the file a save has just written
\* holds as many entry records as the entry count of its header says.
C37_TraversalCoversEntries ==
    LET v == Visits(store, kvstore_iter_begin(store))
    IN  /\ {v[i] : i \in DOMAIN v} = Linked(store)
        /\ \A i, j \in DOMAIN v : i # j => v[i] # v[j]
        /\ Len(v) = kvstore_size(store)
        /\ ret.op = "save" =>
              /\ U32Value(read_u32(little_endian, disk, 7)) = Len(v)
              /\ Records(little_endian, disk, 11) = Len(v)

\* a save of a table where the traversal went along a chain of two entries
\* and over an empty bucket to the next bucket that has one
C37_Witness_ChainAndGap ==
    /\ ret.op = "save"
    /\ \E e \in Linked(store) : store.arena[e].next # NULL
    /\ \E i, j, k \in DOMAIN store.buckets :
          /\ i < j /\ j < k
          /\ store.buckets[i] # NULL /\ store.buckets[j] = NULL /\ store.buckets[k] # NULL

\* ------------------------------------ one stream of bytes, cut in two ways

L_PING == <<80, 73, 78, 71, 10>>
L_PING_CRLF == <<80, 73, 78, 71, 13, 10>>
\* what each client sends: five PING lines, the last one ending in CR LF.
\* The lines fit in one read, their replies do not fit in write_buffer.
Stream == L_PING \o L_PING \o L_PING \o L_PING \o L_PING_CRLF

\* the segments the next read of client c may return: the bytes of Stream
\* after those read before, cut anywhere
Segments(c) ==
    LET done == Len(wire[c].received)
    IN  {SubSeq(Stream, done + 1, done + n) : n \in 1..(Len(Stream) - done)}

InitSegments ==
    /\ InitEngine /\ little_endian = TRUE /\ InitPersist /\ InitApi /\ InitServer
    /\ InitLife /\ InitArena
    /\ wire = [c \in Clients |-> NewRecord]
    /\ g_server = ServerUp

\* two clients send Stream, each in segments of its own, and read every
\* reply before they send on
NextSegments ==
    \/ \E t \in HandlerThreads : \E c \in Clients : HandleNewConnection(t, c)
    \/ \E t \in HandlerThreads : \E c \in Clients : \E input \in Segments(c) :
            HandleClientRead(t, c, input)
    \/ \E t \in HandlerThreads : ProcessLine(t)
    \/ \E t \in HandlerThreads : EndRead(t)
    \/ \E t \in HandlerThreads : \E c \in Clients :
            HandleClientWrite(t, c, Len(unwritten(conn[c])))

SpecSegments == InitSegments /\ [][NextSegments]_vars

\* every line client c has sent is dispatched and every reply queued for it
\* is written
Settled(c) ==
    /\ conn[c].state = "open"
    /\ \A t \in HandlerThreads : handler[t].pc = "epoll_wait"
    /\ conn[c].write_buffer = <<>>

\* C38: the replies a connection is sent depend on the bytes the server has
\* read from it and not on how the reads cut them: two connections that
\* have sent the same bytes, whose lines are all dispatched and whose
\* replies are all written, have been sent the same replies.
C38_SameBytesSameReplies ==
    \A c1, c2 \in Clients :
        (Settled(c1) /\ Settled(c2) /\ wire[c1].received = wire[c2].received)
            => wire[c1].replied = wire[c2].replied

\* ------------------------------------------ replies on their way out

\* what the clients send while replies wait: client 1 its GETs, with replies
\* unread, and KEYS; client 2 a PING
DrainInputs(c) == IF c = 1 THEN {L_GET, L_GET \o L_GET, L_KEYS} ELSE {L_PING}

\* how many bytes a socket takes of what is written to it: two bytes, or
\* all of them
Taken(c) == {2, Len(unwritten(conn[c]))}

\* run_server calls handle_client_write for client c
WriteEvent(c) ==
    \E t \in HandlerThreads : \E written \in Taken(c) : HandleClientWrite(t, c, written)

\* the thread of run_server goes on in the handler it is in
HandlerStep(t) ==
    ProcessLine(t) \/ HandlerApi(t) \/ CmdReturn(t) \/ CmdKeys(t) \/ EndRead(t)

\* the server's loop with sockets that take a part of what is written
NextDrain ==
    \/ \E t \in HandlerThreads : \E c \in Clients : HandleNewConnection(t, c)
    \/ \E t \in HandlerThreads : \E c \in Clients : \E input \in DrainInputs(c) :
            HandleClientRead(t, c, input)
    \/ \E t \in HandlerThreads : HandlerStep(t)
    \/ \E c \in Clients : WriteEvent(c)

\* The thread of run_server goes on with the handler it is in: weak
\* fairness of HandlerStep(t), which is enabled exactly while the thread is
\* not in epoll_wait, with that written in the place of ENABLED. The peer
\* keeps reading, so the socket of a client registered for EPOLLOUT becomes
\* writable again and again, epoll_wait reports it each time, and run_server
\* calls handle_client_write for the event once the handler of the event
\* before it has returned: strong fairness of WriteEvent(c).
DrainFairness ==
    /\ \A t \in HandlerThreads :
          \/ []<>(handler[t].pc = "epoll_wait")
          \/ []<><<HandlerStep(t)>>_vars
    /\ \A c \in Clients : SF_vars(WriteEvent(c))

SpecDrain == Init /\ [][NextDrain]_vars /\ DrainFairness

\* C39: a connection with bytes in write_buffer is registered for EPOLLOUT,
\* and the bytes are all written in the end: from every state where
\* write_buffer is not empty the connection comes to one where write_buffer
\* is empty, write_pos is 0 and EPOLLOUT is no longer registered.
C39_RepliesDrain ==
    /\ [](\A c \in Clients :
            (conn[c].state = "open" /\ conn[c].write_buffer # <<>>) => conn[c].epollout)
    /\ \A c \in Clients :
          (conn[c].state = "open" /\ conn[c].write_buffer # <<>>)
              ~> (conn[c].write_buffer = <<>> /\ conn[c].write_pos = 0 /\ ~conn[c].epollout)

\* a socket has taken part of the replies, and more replies were queued
\* behind them before it took the rest
C39_Witness_PartWritten ==
    /\ conn[1].state = "open"
    /\ conn[1].epollout
    /\ conn[1].write_pos > 0
    /\ Len(conn[1].write_buffer) > conn[1].write_pos + Len(RESP_NULL)

\* ------------------------------------------------- the end of the server
\* g_server.run_server is where the main thread is: "epoll_wait" in the
\* loop of run_server, "join" in the pthread_join behind it, "returned" when
\* run_server has returned, "exited" when cleanup_server has run at exit.
\* g_server.worker_thread is where worker_thread is: "test" at the test of
\* its while, "sleep" in sleep(10), "returned".

WorkerUp == [ServerUp EXCEPT !.worker_thread = "test"]

InitShutdown ==
    /\ InitEngine /\ little_endian = TRUE /\ InitPersist /\ InitApi /\ InitServer
    /\ InitLife /\ InitArena
    /\ wire = [c \in Clients |-> NoRecord]
    /\ g_server = WorkerUp

\* the main thread is in the loop of run_server
InLoop == g_server.run_server = "epoll_wait"

\* signal_handler on SIGINT or SIGTERM
Signal ==
    /\ g_server.running
    /\ g_server' = [g_server EXCEPT !.running = FALSE]
    /\ UNCHANGED <<engineVars, persistVars, apiVars, serverVars, lifeVars, arenaVars, wire>>

\* the loop of run_server ends: its test finds running false, or epoll_wait
\* has failed with an error other than EINTR, and the break leaves running
\* as it is
LeaveLoop(failed) ==
    /\ InLoop
    /\ \A t \in Threads : handler[t].pc = "epoll_wait"
    /\ failed \/ ~g_server.running
    /\ g_server' = [g_server EXCEPT !.run_server = "join"]
    /\ UNCHANGED <<engineVars, persistVars, apiVars, serverVars, lifeVars, arenaVars, wire>>

\* worker_thread finds running true and calls cleanup_inactive_clients
WorkerScan ==
    /\ g_server.worker_thread = "test"
    /\ g_server.running
    /\ conn' = cleanup_inactive_clients
    /\ active_connections' = fetch_sub_times(active_connections, Cardinality(Inactive))
    /\ sock' = NoWrite
    /\ g_server' = [g_server EXCEPT !.worker_thread = "sleep"]
    /\ UNCHANGED <<engineVars, persistVars, apiVars, lifeVars, arenaVars, wire, handler, now, next_scan>>

\* sleep(10) returns
WorkerWake ==
    /\ g_server.worker_thread = "sleep"
    /\ g_server' = [g_server EXCEPT !.worker_thread = "test"]
    /\ UNCHANGED <<engineVars, persistVars, apiVars, serverVars, lifeVars, arenaVars, wire>>

\* worker_thread finds running false and returns
WorkerReturn ==
    /\ g_server.worker_thread = "test"
    /\ ~g_server.running
    /\ g_server' = [g_server EXCEPT !.worker_thread = "returned"]
    /\ UNCHANGED <<engineVars, persistVars, apiVars, serverVars, lifeVars, arenaVars, wire>>

\* pthread_join returns, and run_server with it
Join ==
    /\ g_server.run_server = "join"
    /\ g_server.worker_thread = "returned"
    /\ g_server' = [g_server EXCEPT !.run_server = "returned"]
    /\ UNCHANGED <<engineVars, persistVars, apiVars, serverVars, lifeVars, arenaVars, wire>>

\* main returns and cleanup_server runs at exit: running is set false, every
\* client of the list is destroyed, and kv_cleanup tears the engine down
CleanupServer ==
    /\ g_server.run_server = "returned"
    /\ g_server' = [g_server EXCEPT !.running = FALSE, !.run_server = "exited"]
    /\ conn' = [c \in DOMAIN conn |-> IF conn[c].state = "open" THEN destroy_client(conn[c])
                                       ELSE conn[c]]
    /\ active_connections' =
          fetch_sub_times(active_connections,
                          Cardinality({c \in DOMAIN conn : conn[c].state = "open"}))
    /\ sock' = NoWrite
    /\ kv_cleanup
    /\ UNCHANGED <<little_endian, apiVars, g_config, arenaVars, wire, handler, now, next_scan>>

\* the server takes clients that send QUIT, until its loop ends
NextShutdown ==
    \/ \E t \in HandlerThreads : \E c \in Clients : InLoop /\ HandleNewConnection(t, c)
    \/ \E t \in HandlerThreads : \E c \in Clients : InLoop /\ HandleClientRead(t, c, L_QUIT)
    \/ \E t \in HandlerThreads : InLoop /\ ProcessLine(t)
    \/ \E t \in HandlerThreads : InLoop /\ CmdQuit(t)
    \/ \E t \in HandlerThreads : InLoop /\ CmdQuitReturn(t)
    \/ \E t \in HandlerThreads : InLoop /\ EndRead(t)
    \/ \E t \in HandlerThreads : \E c \in Clients :
            InLoop /\ HandleClientWrite(t, c, Len(unwritten(conn[c])))
    \/ Signal
    \/ \E failed \in BOOLEAN : LeaveLoop(failed)
    \/ WorkerScan
    \/ WorkerWake
    \/ WorkerReturn
    \/ Join
    \/ CleanupServer

\* every thread that can take a step takes one in the end: worker_thread
\* its scan, its sleep and its return, the main thread the return of
\* pthread_join and the exit
ShutdownFairness ==
    /\ []<>~(g_server.worker_thread = "test" /\ g_server.running) \/ []<><<WorkerScan>>_vars
    /\ WF_vars(WorkerWake)
    /\ WF_vars(WorkerReturn)
    /\ WF_vars(Join)
    /\ []<>(g_server.run_server # "returned") \/ []<><<CleanupServer>>_vars

SpecShutdown == InitShutdown /\ [][NextShutdown]_vars /\ ShutdownFairness

\* C40: once the loop of run_server has ended, for either reason, the
\* worker returns, run_server returns and cleanup_server has run in the
\* end: no client is left and the engine is torn down.
C40_ShutdownEnds ==
    (g_server.run_server = "join")
        ~> /\ g_server.worker_thread = "returned"
           /\ g_server.run_server = "exited"
           /\ \A c \in DOMAIN conn : conn[c].state # "open"
           /\ ~handle.initialized

====
